---- MODULE Spec2Model ----
(***************************************************************************)
(* A model of the sucrase token-stream rewriter: the transform             *)
(* orchestrator (RootTransformer), the JSX transformer and its text        *)
(* normalisation functions.                                                *)
(*                                                                         *)
(* Text is a sequence of atoms.  An atom is a one-character string of the  *)
(* source ("#", "!", "\n", "a", ...), a whole word of the source whose     *)
(* characters no code looks at ("class", "x"), or a fragment injected by   *)
(* a transformer ("constructor(", " var ").  The only atom that holds a    *)
(* line break is "\n" itself, so indexOf("\n") is a search for that atom.  *)
(* Token indices are 0-based as in the code; Tok(i) is tokens[i + 1].      *)
(***************************************************************************)
EXTENDS Integers, Sequences, FiniteSets, TLC

VARIABLES
  pc,                 \* "new" | "constructed" | "configError" | "done" | "failed"
  transforms,         \* the enabled extensions handed to the constructor
  transformers,       \* RootTransformer.transformers, in registration order
  opaque,             \* whether the transformers outside this excerpt report prefix/suffix text
  tokens,             \* TokenProcessor.tokens
  classInfos,         \* what getClassInfo returns, by the index of the class token
  tokenIndex,         \* TokenProcessor.tokenIndex
  resultCode,         \* TokenProcessor.resultCode
  generatedVariables, \* RootTransformer.generatedVariables
  usedNames,          \* NameManager.usedNames
  lastLineNumber,     \* JSXTransformer.lastLineNumber
  lastIndex,          \* JSXTransformer.lastIndex
  filenameVarName,    \* JSXTransformer.filenameVarName ("" is null)
  failure,            \* the message of the error thrown, "" when none
  output,             \* the text transform() returned, <<>> before it returns
  program             \* the source handed to the run: its kind and its parts

vars == <<pc, transforms, transformers, opaque, tokens, classInfos, tokenIndex,
          resultCode, generatedVariables, usedNames, lastLineNumber, lastIndex,
          filenameVarName, failure, output, program>>

----------------------------------------------------------------------------
(* Sequence helpers *)

RECURSIVE Flatten(_)
Flatten(ss) == IF ss = <<>> THEN <<>> ELSE Head(ss) \o Flatten(Tail(ss))

RECURSIVE Join(_, _)
\* Array.prototype.join: ss is an array of texts, sep a text
Join(ss, sep) ==
  IF ss = <<>> THEN <<>>
  ELSE IF Len(ss) = 1 THEN ss[1]
  ELSE ss[1] \o sep \o Join(Tail(ss), sep)

Range(s) == {s[i] : i \in 1..Len(s)}

SeqsUpTo(S, n) == UNION {[1..k -> S] : k \in 0..n}

\* String.prototype.indexOf("\n"): 0-based, -1 when absent
IndexOfNewline(code) ==
  IF \E i \in 1..Len(code) : code[i] = "\n"
  THEN (CHOOSE i \in 1..Len(code) : code[i] = "\n" /\ \A j \in 1..(i - 1) : code[j] # "\n") - 1
  ELSE -1

\* String.prototype.startsWith("#!")
StartsWithShebang(code) == Len(code) >= 2 /\ code[1] = "#" /\ code[2] = "!"

\* String.prototype.slice(from, to), 0-based, to exclusive
Slice(code, from, to) == SubSeq(code, from + 1, to)

----------------------------------------------------------------------------
(* Tokens *)

NoContext == 0

Token(type, ws, text) ==
  [type |-> type, ws |-> ws, text |-> text, contextId |-> NoContext, isType |-> FALSE]

CToken(type, ws, text, ctx) ==
  [type |-> type, ws |-> ws, text |-> text, contextId |-> ctx, isType |-> FALSE]

Tok(i) == tokens[i + 1]

\* TokenProcessor.code: the source text the tokens were cut from
SourceOf(toks) == Flatten([i \in 1..Len(toks) |-> toks[i].ws \o toks[i].text])

\* token.start of the token at 0-based index i
TokenStart(toks, i) == Len(SourceOf(SubSeq(toks, 1, i))) + Len(toks[i + 1].ws)

----------------------------------------------------------------------------
(* The run's mutable state, threaded through the operators below *)

RunState == [tokenIndex |-> tokenIndex, resultCode |-> resultCode,
             generatedVariables |-> generatedVariables, usedNames |-> usedNames,
             lastLineNumber |-> lastLineNumber, lastIndex |-> lastIndex,
             filenameVarName |-> filenameVarName, failure |-> failure]

Failed(s) == s.failure # ""

Throw(s, msg) == IF Failed(s) THEN s ELSE [s EXCEPT !.failure = msg]

----------------------------------------------------------------------------
(* TokenProcessor *)

IsAtEnd(s) == s.tokenIndex = Len(tokens)

MatchesAtIndex(i, types) ==
  \A k \in 1..Len(types) : i + k - 1 < Len(tokens) /\ Tok(i + k - 1).type = types[k]

Matches1(s, t) == MatchesAtIndex(s.tokenIndex, <<t>>)

Matches2(s, t1, t2) == MatchesAtIndex(s.tokenIndex, <<t1, t2>>)

MatchesContextIdAndLabel(s, t, ctx) ==
  Matches1(s, t) /\ Tok(s.tokenIndex).contextId = ctx

\* a read of the current token past the end is a TypeError in the code
Deref(s) == IF s.tokenIndex < Len(tokens) THEN s ELSE Throw(s, "TypeError")

AppendCode(s, code) ==
  IF Failed(s) THEN s ELSE [s EXCEPT !.resultCode = @ \o code]

ReplaceToken(s, code) ==
  IF Failed(Deref(s)) THEN Deref(s)
  ELSE [s EXCEPT !.resultCode = @ \o Tok(s.tokenIndex).ws \o code,
                 !.tokenIndex = @ + 1]

CopyToken(s) ==
  IF Failed(Deref(s)) THEN Deref(s) ELSE ReplaceToken(s, Tok(s.tokenIndex).text)

CopyExpectedToken(s, t) ==
  IF Failed(s) THEN s
  ELSE IF ~Matches1(s, t) THEN Throw(s, "Expected token")
  ELSE CopyToken(s)

RemoveToken(s) ==
  IF Failed(Deref(s)) THEN Deref(s) ELSE [s EXCEPT !.tokenIndex = @ + 1]

RemoveInitialToken(s) == RemoveToken(s)

Finish(s) == s.resultCode

IdentifierNameAt(i) == Tok(i).text

----------------------------------------------------------------------------
(* NameManager *)

\* the name claimFreeName tries n-th for a base: base, base2, base3, ...
CandidateName(base, n) ==
  CASE base = "_class" /\ n = 1 -> "_class"
    [] base = "_class" /\ n = 2 -> "_class2"
    [] base = "_class" /\ n = 3 -> "_class3"
    [] base = "args" /\ n = 1 -> "args"
    [] base = "args" /\ n = 2 -> "args2"
    [] base = "args" /\ n = 3 -> "args3"
    [] base = "_jsxFileName" /\ n = 1 -> "_jsxFileName"
    [] base = "_jsxFileName" /\ n = 2 -> "_jsxFileName2"
    [] OTHER -> "_overflow"

FreeName(used, base) ==
  CandidateName(base, CHOOSE n \in 1..4 :
      /\ CandidateName(base, n) \notin used
      /\ \A m \in 1..(n - 1) : CandidateName(base, m) \in used)

\* the state after claimFreeName(base); the name claimed is FreeName(s.usedNames, base)
ClaimFreeName(s, base) ==
  [s EXCEPT !.usedNames = @ \cup {FreeName(s.usedNames, base)}]

----------------------------------------------------------------------------
(* Text normalisation: the pure functions at the end of the JSX transformer *)

UpperCaseLetters ==
  <<"A", "B", "C", "D", "E", "F", "G", "H", "I", "J", "K", "L", "M",
    "N", "O", "P", "Q", "R", "S", "T", "U", "V", "W", "X", "Y", "Z">>

LowerCaseLetters ==
  <<"a", "b", "c", "d", "e", "f", "g", "h", "i", "j", "k", "l", "m",
    "n", "o", "p", "q", "r", "s", "t", "u", "v", "w", "x", "y", "z">>

\* String.prototype.toLowerCase on one character
ToLowerCase(c) ==
  IF \E i \in 1..26 : UpperCaseLetters[i] = c
  THEN LowerCaseLetters[CHOOSE i \in 1..26 : UpperCaseLetters[i] = c]
  ELSE c

startsWithLowerCase(s) == s[1] = ToLowerCase(s[1])

\* JSON.stringify of a string: quoted, with the escapes of the characters modelled
JSONEscape(c) ==
  CASE c = "\"" -> <<"\\", "\"">>
    [] c = "\\" -> <<"\\", "\\">>
    [] c = "\n" -> <<"\\", "n">>
    [] c = "\t" -> <<"\\", "t">>
    [] c = "\r" -> <<"\\", "r">>
    [] OTHER -> <<c>>

JSONStringify(str) ==
  <<"\"">> \o Flatten([i \in 1..Len(str) |-> JSONEscape(str[i])]) \o <<"\"">>

Repeat(c, n) == [i \in 1..n |-> c]

DecimalDigits == <<"0", "1", "2", "3", "4", "5", "6", "7", "8", "9">>

HexDigits ==
  <<"0", "1", "2", "3", "4", "5", "6", "7", "8", "9", "a", "b", "c", "d", "e", "f">>

DigitValue(c) ==
  IF \E i \in 1..16 : HexDigits[i] = c
  THEN (CHOOSE i \in 1..16 : HexDigits[i] = c) - 1
  ELSE (CHOOSE i \in 11..16 : HexDigits[i] = ToLowerCase(c)) - 1

\* DECIMAL_NUMBER = /^\d+$/
IsDecimalNumber(str) == str # <<>> /\ \A i \in 1..Len(str) : str[i] \in Range(DecimalDigits)

\* HEX_NUMBER = /^[\da-fA-F]+$/
IsHexNumber(str) ==
  str # <<>> /\ \A i \in 1..Len(str) : ToLowerCase(str[i]) \in Range(HexDigits)

RECURSIVE ParseInt(_, _)
ParseInt(str, radix) ==
  IF str = <<>> THEN 0
  ELSE ParseInt(SubSeq(str, 1, Len(str) - 1), radix) * radix + DigitValue(str[Len(str)])

MaxCodePoint == 1114111

\* String.fromCodePoint for the code points the inputs name; every other valid
\* code point is the one atom "<char>"; "<RangeError>" stands for the throw
FromCodePoint(n) ==
  CASE n > MaxCodePoint -> "<RangeError>"
    [] n = 65 -> "A"
    [] n = 97 -> "a"
    [] n = 38 -> "&"
    [] n = 60 -> "<"
    [] n = 32 -> " "
    [] OTHER -> "<char>"

\* the named-entity table (xhtml.ts), the entries the inputs name
XHTMLEntityNames == {<<"a", "m", "p">>, <<"l", "t">>, <<"g", "t">>, <<"q", "u", "o", "t">>}

XHTMLEntities(str) ==
  CASE str = <<"a", "m", "p">> -> "&"
    [] str = <<"l", "t">> -> "<"
    [] str = <<"g", "t">> -> ">"
    [] str = <<"q", "u", "o", "t">> -> "\""
    [] OTHER -> ""

EntityBudget == 10

RECURSIVE EntityScan(_, _, _, _)
\* the while loop of processEntity: [found, str, i] when it ends
EntityScan(text, i, count, str) ==
  IF i < Len(text) /\ count < EntityBudget
  THEN IF text[i + 1] = ";"
       THEN [found |-> TRUE, str |-> str, i |-> i + 1]
       ELSE EntityScan(text, i + 1, count + 1, str \o <<text[i + 1]>>)
  ELSE [found |-> FALSE, str |-> str, i |-> i]

\* the value of `entity` when the loop ends; "" is undefined
EntityValue(scan) ==
  IF ~scan.found THEN ""
  ELSE IF Len(scan.str) >= 1 /\ scan.str[1] = "#"
  THEN IF Len(scan.str) >= 2 /\ scan.str[2] = "x"
       THEN IF IsHexNumber(SubSeq(scan.str, 3, Len(scan.str)))
            THEN FromCodePoint(ParseInt(SubSeq(scan.str, 3, Len(scan.str)), 16))
            ELSE ""
       ELSE IF IsDecimalNumber(SubSeq(scan.str, 2, Len(scan.str)))
            THEN FromCodePoint(ParseInt(SubSeq(scan.str, 2, Len(scan.str)), 10))
            ELSE ""
  ELSE XHTMLEntities(scan.str)

UnresolvedResumesAtScanEnd(text, indexAfterAmpersand) ==
  LET scan == EntityScan(text, indexAfterAmpersand, 0, <<>>)
      entity == EntityValue(scan)
  IN IF entity = "" THEN [entity |-> "&", newI |-> scan.i]
     ELSE [entity |-> entity, newI |-> scan.i]

processEntity(text, indexAfterAmpersand) ==
  LET scan == EntityScan(text, indexAfterAmpersand, 0, <<>>)
      entity == EntityValue(scan)
  IN IF entity = "" THEN [entity |-> "&", newI |-> indexAfterAmpersand]
     ELSE [entity |-> entity, newI |-> scan.i]

RECURSIVE TextLiteralLoop(_, _, _, _, _, _)
\* the for loop of formatJSXTextLiteral and the lines after it: the value of `result`
TextLiteralLoop(text, i, result, whitespace, isInInitialLineWhitespace, seenNonWhitespace) ==
  IF i >= Len(text)
  THEN IF ~isInInitialLineWhitespace THEN result \o whitespace ELSE result
  ELSE LET c == text[i + 1] IN
    IF c = " " \/ c = "\t" \/ c = "\r"
    THEN TextLiteralLoop(text, i + 1, result,
                         IF ~isInInitialLineWhitespace THEN whitespace \o <<c>> ELSE whitespace,
                         isInInitialLineWhitespace, seenNonWhitespace)
    ELSE IF c = "\n"
    THEN TextLiteralLoop(text, i + 1, result, <<>>, TRUE, seenNonWhitespace)
    ELSE LET spaced == IF seenNonWhitespace /\ isInInitialLineWhitespace
                       THEN result \o <<" ">> ELSE result
             e == processEntity(text, i + 1)
         IN IF c = "&"
            THEN TextLiteralLoop(text, (e.newI - 1) + 1, spaced \o whitespace \o <<e.entity>>,
                                 <<>>, FALSE, TRUE)
            ELSE TextLiteralLoop(text, i + 1, spaced \o whitespace \o <<c>>, <<>>, FALSE, TRUE)

\* the normalised text, before JSON.stringify
NormalizedText(text) == TextLiteralLoop(text, 0, <<>>, <<>>, FALSE, FALSE)

formatJSXTextLiteral(text) == JSONStringify(NormalizedText(text))

RECURSIVE ReplacementLoop(_, _, _, _)
\* the for loop of formatJSXTextReplacement: [numNewlines, numSpaces]
ReplacementLoop(text, i, numNewlines, numSpaces) ==
  IF i > Len(text) THEN [numNewlines |-> numNewlines, numSpaces |-> numSpaces]
  ELSE IF text[i] = "\n" THEN ReplacementLoop(text, i + 1, numNewlines + 1, 0)
  ELSE IF text[i] = " " THEN ReplacementLoop(text, i + 1, numNewlines, numSpaces + 1)
  ELSE ReplacementLoop(text, i + 1, numNewlines, numSpaces)

formatJSXTextReplacement(text) ==
  LET n == ReplacementLoop(text, 1, 0, 0)
  IN Repeat("\n", n.numNewlines) \o Repeat(" ", n.numSpaces)

\* /\s/.test(text[i]) for a 0-based i; past the end the test is of "undefined"
IsSpaceAt(text, i) == i < Len(text) /\ text[i + 1] \in {" ", "\t", "\r", "\n"}

RECURSIVE SkipSpace(_, _)
\* while (i < text.length && /\s/.test(text[i + 1])) i++
SkipSpace(text, i) ==
  IF i < Len(text) /\ IsSpaceAt(text, i + 1) THEN SkipSpace(text, i + 1) ELSE i

RECURSIVE StringValueLoop(_, _, _)
StringValueLoop(text, i, result) ==
  IF i >= Len(text) THEN result
  ELSE LET c == text[i + 1]
           e == processEntity(text, i + 1)
       IN IF c = "\n"
          THEN IF IsSpaceAt(text, i + 1)
               THEN StringValueLoop(text, SkipSpace(text, i) + 1, result \o <<" ">>)
               ELSE StringValueLoop(text, i + 1, result \o <<"\n">>)
          ELSE IF c = "&"
          THEN StringValueLoop(text, (e.newI - 1) + 1, result \o <<e.entity>>)
          ELSE StringValueLoop(text, i + 1, result \o <<c>>)

formatJSXStringValueLiteral(text) == JSONStringify(StringValueLoop(text, 0, <<>>))

----------------------------------------------------------------------------
(* JSXTransformer: the parts that do not call back into the orchestrator *)

\* the decimal text of a line number
NumberText(n) ==
  CASE n = 1 -> "1" [] n = 2 -> "2" [] n = 3 -> "3" [] n = 4 -> "4" [] n = 5 -> "5"
    [] n = 6 -> "6" [] n = 7 -> "7" [] n = 8 -> "8" [] n = 9 -> "9" [] OTHER -> "<number>"

\* the state after getLineNumberForIndex(index); the value returned is its lastLineNumber
getLineNumberForIndex(s, index) ==
  LET code == SourceOf(tokens)
      stop == IF index < Len(code) THEN index ELSE Len(code)
  IN IF s.lastIndex >= stop THEN s
     ELSE [s EXCEPT
             !.lastLineNumber = @ + Cardinality({i \in (s.lastIndex + 1)..stop : code[i] = "\n"}),
             !.lastIndex = stop]

\* the state after getFilenameVarName(); the value returned is its filenameVarName
getFilenameVarName(s) ==
  IF s.filenameVarName # "" THEN s
  ELSE [ClaimFreeName(s, "_jsxFileName") EXCEPT
          !.filenameVarName = FreeName(s.usedNames, "_jsxFileName")]

\* the template string devProps of processProps
DevProps(s) ==
  <<"__self: this, __source: {fileName: ", s.filenameVarName, ", lineNumber: ",
    NumberText(s.lastLineNumber), "}">>

\* a text function that threw (String.fromCodePoint out of range) leaves this atom
Threw(code) == "<RangeError>" \in Range(code)

processStringPropValue(s) ==
  IF Failed(Deref(s)) THEN Deref(s)
  ELSE LET token == Tok(s.tokenIndex)
           valueCode == Slice(token.text, 1, Len(token.text) - 1)
           replacementCode == formatJSXTextReplacement(valueCode)
           literalCode == formatJSXStringValueLiteral(valueCode)
       IN IF Threw(literalCode) THEN Throw(s, "RangeError")
          ELSE ReplaceToken(s, literalCode \o replacementCode)

ChildTextAlwaysAnArgument(s) ==
  IF Failed(Deref(s)) THEN Deref(s)
  ELSE LET valueCode == Tok(s.tokenIndex).text
       IN ReplaceToken(s, <<", ">> \o formatJSXTextLiteral(valueCode)
                             \o formatJSXTextReplacement(valueCode))

processChildTextElement(s) ==
  IF Failed(Deref(s)) THEN Deref(s)
  ELSE LET token == Tok(s.tokenIndex)
           valueCode == token.text
           replacementCode == formatJSXTextReplacement(valueCode)
           literalCode == formatJSXTextLiteral(valueCode)
       IN IF Threw(literalCode) THEN Throw(s, "RangeError")
          ELSE IF literalCode = <<"\"", "\"">>
          THEN ReplaceToken(s, replacementCode)
          ELSE ReplaceToken(s, <<", ">> \o literalCode \o replacementCode)

RECURSIVE IntroEnd(_)
\* the first while loop of processTagIntro, from introEnd; a scan that runs off
\* the token array never ends in the code, and here stops at Len(tokens) + 1
IntroEnd(introEnd) ==
  IF introEnd > Len(tokens) THEN introEnd
  ELSE IF /\ ~MatchesAtIndex(introEnd - 1, <<"jsxName", "jsxName">>)
          /\ ~MatchesAtIndex(introEnd, <<"braceL">>)
          /\ ~MatchesAtIndex(introEnd, <<"jsxTagEnd">>)
          /\ ~MatchesAtIndex(introEnd, <<"slash", "jsxTagEnd">>)
  THEN IntroEnd(introEnd + 1)
  ELSE introEnd

----------------------------------------------------------------------------
(* RootTransformer and the JSX transformer's methods that call one another.
   A method calls another through Call(method, s, args): s is the run's state
   before the call, args the call's other arguments, and the value is the
   run's state when the call returns. *)

RECURSIVE Call(_, _, _)

\* getClassInfo, as the parser's annotations give it for the class at the cursor
getClassInfo(s) == classInfos[s.tokenIndex]

\* `${className}` in a template string: null prints as "null"
NameText(name) == IF name = "" THEN "null" ELSE name

NoInsertPos == -1

\* JSXTransformer.process; the other transformers of the chain handle none of the
\* tokens of the programs modelled (no import, type, numeric separator or catch)
TransformerHandles(t, s) == t = "JSXTransformer" /\ Matches1(s, "jsxTagStart")

\* the for loop of processToken from transformer k on, and the copyToken after it
DispatchFrom(s, k) ==
  IF k > Len(transformers) THEN CopyToken(s)
  ELSE IF TransformerHandles(transformers[k], s) THEN Call("processJSXTag", s, <<>>)
  ELSE Call("DispatchFrom", s, <<k + 1>>)

processToken(s) ==
  IF Failed(s) THEN s
  ELSE IF Matches1(s, "_class") THEN Call("processClass", s, <<>>)
  ELSE Call("DispatchFrom", s, <<1>>)

BalancedLoopWithoutTemplates(s, braceDepth, parenDepth) ==
  IF Failed(s) \/ IsAtEnd(s) THEN s
  ELSE LET opens == Matches1(s, "braceL")
           closes == ~opens /\ Matches1(s, "braceR")
           depth == IF opens THEN braceDepth + 1
                    ELSE IF closes THEN braceDepth - 1 ELSE braceDepth
           parens == IF Matches1(s, "parenL") THEN parenDepth + 1
                     ELSE IF Matches1(s, "parenR") THEN parenDepth - 1 ELSE parenDepth
       IN IF closes /\ braceDepth = 0 THEN s
          ELSE IF Matches1(s, "parenR") /\ parenDepth = 0 THEN s
          ELSE Call("BalancedLoop", Call("processToken", s, <<>>), <<depth, parens>>)

\* the while loop of processBalancedCode
BalancedLoop(s, braceDepth, parenDepth) ==
  IF Failed(s) \/ IsAtEnd(s) THEN s
  ELSE LET opens == Matches1(s, "braceL") \/ Matches1(s, "dollarBraceL")
           closes == ~opens /\ Matches1(s, "braceR")
           depth == IF opens THEN braceDepth + 1
                    ELSE IF closes THEN braceDepth - 1 ELSE braceDepth
           parens == IF Matches1(s, "parenL") THEN parenDepth + 1
                     ELSE IF Matches1(s, "parenR") THEN parenDepth - 1 ELSE parenDepth
       IN IF closes /\ braceDepth = 0 THEN s
          ELSE IF Matches1(s, "parenR") /\ parenDepth = 0 THEN s
          ELSE Call("BalancedLoop", Call("processToken", s, <<>>), <<depth, parens>>)

processBalancedCode(s) == Call("BalancedLoop", s, <<0, 0>>)

\* while (!matchesContextIdAndLabel(braceL, contextId)) processToken()
ClassHeaderLoop(s, contextId) ==
  IF Failed(s) \/ MatchesContextIdAndLabel(s, "braceL", contextId) THEN s
  ELSE Call("ClassHeaderLoop", Call("processToken", s, <<>>), <<contextId>>)

StaticInitializerCodeLastFirst(classInfo, className, needsCommaExpression) ==
  LET n == Len(classInfo.staticInitializerSuffixes)
      statements == [i \in 1..n |->
                       <<NameText(className), classInfo.staticInitializerSuffixes[n + 1 - i]>>]
  IN IF needsCommaExpression
     THEN <<", ">> \o Join(statements, <<", ">>) \o <<", ", NameText(className), ")">>
     ELSE IF n > 0 THEN <<" ">> \o Join(statements, <<"; ">>) \o <<";">>
     ELSE <<>>

\* the text appended after the class body for its static initializers
StaticInitializerCode(classInfo, className, needsCommaExpression) ==
  LET statements == [i \in 1..Len(classInfo.staticInitializerSuffixes) |->
                       <<NameText(className), classInfo.staticInitializerSuffixes[i]>>]
  IN IF needsCommaExpression
     THEN <<", ">> \o Join(statements, <<", ">>) \o <<", ", NameText(className), ")">>
     ELSE IF Len(classInfo.staticInitializerSuffixes) > 0
     THEN <<" ">> \o Join(statements, <<"; ">>) \o <<";">>
     ELSE <<>>

processClassTemporaryOnlyWhenAnonymous(s) ==
  IF s.tokenIndex >= Len(tokens) THEN Throw(s, "TypeError")
  ELSE LET classInfo == getClassInfo(s)
           anonymous == classInfo.headerInfo.className = ""
           needsCommaExpression ==
             classInfo.headerInfo.isExpression /\ Len(classInfo.staticInitializerSuffixes) > 0
           className == IF needsCommaExpression /\ anonymous
                        THEN FreeName(s.usedNames, "_class")
                        ELSE classInfo.headerInfo.className
           s1 == IF needsCommaExpression /\ anonymous
                 THEN AppendCode([ClaimFreeName(s, "_class") EXCEPT
                                    !.generatedVariables = Append(@, className)],
                                 <<" (", className, " =">>)
                 ELSE IF needsCommaExpression THEN AppendCode(s, <<" (">>)
                 ELSE s
           contextId == Tok(s.tokenIndex).contextId
       IN IF contextId = NoContext THEN Throw(s1, "Expected class to have a context ID.")
          ELSE AppendCode(
                 Call("processClassBody",
                      Call("ClassHeaderLoop", CopyExpectedToken(s1, "_class"), <<contextId>>),
                      <<classInfo>>),
                 StaticInitializerCode(classInfo, className, needsCommaExpression))

processClass(s) ==
  IF s.tokenIndex >= Len(tokens) THEN Throw(s, "TypeError")
  ELSE LET classInfo == getClassInfo(s)
           needsCommaExpression ==
             classInfo.headerInfo.isExpression /\ Len(classInfo.staticInitializerSuffixes) > 0
           className == IF needsCommaExpression THEN FreeName(s.usedNames, "_class")
                        ELSE classInfo.headerInfo.className
           s1 == IF needsCommaExpression
                 THEN AppendCode([ClaimFreeName(s, "_class") EXCEPT
                                    !.generatedVariables = Append(@, className)],
                                 <<" (", className, " =">>)
                 ELSE s
           contextId == Tok(s.tokenIndex).contextId
       IN IF contextId = NoContext THEN Throw(s1, "Expected class to have a context ID.")
          ELSE AppendCode(
                 Call("processClassBody",
                      Call("ClassHeaderLoop", CopyExpectedToken(s1, "_class"), <<contextId>>),
                      <<classInfo>>),
                 StaticInitializerCode(classInfo, className, needsCommaExpression))

\* removeInitialToken(), then removeToken() up to the end of the field range
RemoveField(s, range) ==
  [s EXCEPT !.tokenIndex = IF range.end > @ + 1 THEN range.end ELSE @ + 1]

\* initializerStatements.join(";")
InitializersCode(classInfo) ==
  Join([i \in 1..Len(classInfo.initializerStatements) |->
          <<classInfo.initializerStatements[i]>>], <<";">>)

SynthesizedConstructorSuperLast(s, classInfo) ==
  IF classInfo.headerInfo.hasSuperclass
  THEN AppendCode(ClaimFreeName(s, "args"),
                  <<"constructor(...", FreeName(s.usedNames, "args"), ") { ">>
                    \o InitializersCode(classInfo)
                    \o <<"; super(...", FreeName(s.usedNames, "args"), "); }">>)
  ELSE AppendCode(s, <<"constructor() { ">> \o InitializersCode(classInfo) \o <<"; }">>)

\* the constructor processClassBody writes when the class has none
SynthesizedConstructor(s, classInfo) ==
  IF classInfo.headerInfo.hasSuperclass
  THEN AppendCode(ClaimFreeName(s, "args"),
                  <<"constructor(...", FreeName(s.usedNames, "args"),
                    ") { super(...", FreeName(s.usedNames, "args"), "); ">>
                    \o InitializersCode(classInfo) \o <<"; }">>)
  ELSE AppendCode(s, <<"constructor() { ">> \o InitializersCode(classInfo) \o <<"; }">>)

\* the while loop of processClassBody and the copy of the closing brace after it
ClassBodyLoop(s, classInfo, fieldIndex, classContextId) ==
  IF Failed(s) THEN s
  ELSE IF MatchesContextIdAndLabel(s, "braceR", classContextId)
  THEN CopyExpectedToken(s, "braceR")
  ELSE IF /\ fieldIndex < Len(classInfo.fieldRanges)
          /\ s.tokenIndex = classInfo.fieldRanges[fieldIndex + 1].start
  THEN Call("ClassBodyLoop", RemoveField(s, classInfo.fieldRanges[fieldIndex + 1]),
            <<classInfo, fieldIndex + 1, classContextId>>)
  ELSE IF s.tokenIndex = classInfo.constructorInsertPos
  THEN Call("ClassBodyLoop",
            Call("processToken",
                 IF Len(classInfo.initializerStatements) > 0
                 THEN AppendCode(CopyToken(s),
                                 <<";">> \o InitializersCode(classInfo) \o <<";">>)
                 ELSE CopyToken(s),
                 <<>>),
            <<classInfo, fieldIndex, classContextId>>)
  ELSE Call("ClassBodyLoop", Call("processToken", s, <<>>),
            <<classInfo, fieldIndex, classContextId>>)

processClassBody(s, classInfo) ==
  IF Failed(s) THEN s
  ELSE IF s.tokenIndex >= Len(tokens) THEN Throw(s, "TypeError")
  ELSE IF Tok(s.tokenIndex).contextId = NoContext
  THEN Throw(s, "Expected non-null context ID on class.")
  ELSE IF ~Matches1(s, "braceL") THEN Throw(s, "Expected token")
  ELSE Call("ClassBodyLoop",
            IF /\ classInfo.constructorInsertPos = NoInsertPos
               /\ Len(classInfo.initializerStatements) > 0
            THEN SynthesizedConstructor(CopyToken(s), classInfo)
            ELSE CopyToken(s),
            <<classInfo, 0, Tok(s.tokenIndex).contextId>>)

\* while (this.tokens.currentIndex() < introEnd) processToken()
TagIntroLoop(s, introEnd) ==
  IF Failed(s) \/ s.tokenIndex >= introEnd THEN s
  ELSE Call("TagIntroLoop", Call("processToken", s, <<>>), <<introEnd>>)

processTagIntro(s) ==
  IF Failed(s) THEN s
  ELSE IF IntroEnd(s.tokenIndex + 1) > Len(tokens)
  THEN Throw(s, "processTagIntro does not end")
  ELSE Call("TagIntroLoop",
            IF /\ IntroEnd(s.tokenIndex + 1) = s.tokenIndex + 1
               /\ startsWithLowerCase(IdentifierNameAt(s.tokenIndex))
            THEN ReplaceToken(s, <<"'">> \o IdentifierNameAt(s.tokenIndex) \o <<"'">>)
            ELSE s,
            <<IntroEnd(s.tokenIndex + 1)>>)

\* { expression }: the braces are replaced by nothing
BracedExpression(s) ==
  ReplaceToken(Call("BalancedLoop", ReplaceToken(s, <<>>), <<0, 0>>), <<>>)

\* the key of a name=value attribute, quoted when it holds a dash
PropKey(s) ==
  IF "-" \in Range(IdentifierNameAt(s.tokenIndex))
  THEN ReplaceToken(s, <<"'">> \o IdentifierNameAt(s.tokenIndex) \o <<"'">>)
  ELSE CopyToken(s)

\* the value of a name=value attribute, from the token after the `=`
PropValue(s) ==
  IF Matches1(s, "braceL") THEN BracedExpression(s) ELSE processStringPropValue(s)

PropsLoopWithoutTrue(s) ==
  IF Failed(s) THEN s
  ELSE IF Matches2(s, "jsxName", "eq")
  THEN Call("PropsLoop",
            AppendCode(PropValue(ReplaceToken(PropKey(s), <<": ">>)), <<",">>), <<>>)
  ELSE IF Matches1(s, "jsxName")
  THEN Call("PropsLoop", AppendCode(CopyToken(s), <<",">>), <<>>)
  ELSE IF Matches1(s, "braceL")
  THEN Call("PropsLoop", AppendCode(BracedExpression(s), <<",">>), <<>>)
  ELSE s

\* the while (true) loop of processProps
PropsLoop(s) ==
  IF Failed(s) THEN s
  ELSE IF Matches2(s, "jsxName", "eq")
  THEN Call("PropsLoop",
            AppendCode(PropValue(ReplaceToken(PropKey(s), <<": ">>)), <<",">>), <<>>)
  ELSE IF Matches1(s, "jsxName")
  THEN Call("PropsLoop", AppendCode(AppendCode(CopyToken(s), <<": true">>), <<",">>), <<>>)
  ELSE IF Matches1(s, "braceL")
  THEN Call("PropsLoop", AppendCode(BracedExpression(s), <<",">>), <<>>)
  ELSE s

\* the rest of processProps, once lineNumber and the file name variable are known
PropsObject(s) ==
  IF ~Matches1(s, "jsxName") /\ ~Matches1(s, "braceL")
  THEN AppendCode(s, <<", {">> \o DevProps(s) \o <<"}">>)
  ELSE AppendCode(Call("PropsLoop", AppendCode(s, <<", {">>), <<>>),
                  <<" ">> \o DevProps(s) \o <<"}">>)

processProps(s, firstTokenStart) ==
  IF Failed(s) THEN s
  ELSE PropsObject(getFilenameVarName(getLineNumberForIndex(s, firstTokenStart)))

processChildren(s) ==
  IF Failed(s) THEN s
  ELSE IF Matches2(s, "jsxTagStart", "slash") THEN s
  ELSE IF Matches1(s, "braceL")
  THEN IF Matches2(s, "braceL", "braceR")
       THEN Call("processChildren", ReplaceToken(ReplaceToken(s, <<>>), <<>>), <<>>)
       ELSE Call("processChildren",
                 ReplaceToken(Call("BalancedLoop", ReplaceToken(s, <<", ">>), <<0, 0>>), <<>>),
                 <<>>)
  ELSE IF Matches1(s, "jsxTagStart")
  THEN Call("processChildren", Call("processJSXTag", AppendCode(s, <<", ">>), <<>>), <<>>)
  ELSE IF Matches1(s, "jsxText")
  THEN Call("processChildren", processChildTextElement(s), <<>>)
  ELSE Throw(s, "Unexpected token when processing JSX children.")

RECURSIVE ClosingTagLoop(_)
\* while (!matches1(jsxTagEnd)) replaceToken("")
ClosingTagLoop(s) ==
  IF Failed(s) \/ Matches1(s, "jsxTagEnd") THEN s
  ELSE ClosingTagLoop(ReplaceToken(s, <<>>))

\* the end of processJSXTag, from the state processProps returned
TagEnd(s) ==
  IF Failed(s) THEN s
  ELSE IF Matches2(s, "slash", "jsxTagEnd")
  THEN ReplaceToken(ReplaceToken(s, <<>>), <<")">>)
  ELSE IF Matches1(s, "jsxTagEnd")
  THEN ReplaceToken(
         ClosingTagLoop(Call("processChildren", ReplaceToken(s, <<>>), <<>>)), <<")">>)
  ELSE Throw(s, "Expected either /> or > at the end of the tag.")

\* importProcessor.getIdentifierReplacement("React") || "React", with no import of React
ResolvedReactName == "React"

processJSXTag(s) ==
  IF s.tokenIndex >= Len(tokens) THEN Throw(s, "TypeError")
  ELSE TagEnd(Call("processProps",
                   Call("processTagIntro",
                        ReplaceToken(s, <<ResolvedReactName, ".createElement(">>), <<>>),
                   <<TokenStart(tokens, s.tokenIndex)>>))

Call(method, s, args) ==
  CASE method = "processToken" -> processToken(s)
    [] method = "DispatchFrom" -> DispatchFrom(s, args[1])
    [] method = "BalancedLoop" -> BalancedLoop(s, args[1], args[2])
    [] method = "processClass" -> processClass(s)
    [] method = "ClassHeaderLoop" -> ClassHeaderLoop(s, args[1])
    [] method = "processClassBody" -> processClassBody(s, args[1])
    [] method = "ClassBodyLoop" -> ClassBodyLoop(s, args[1], args[2], args[3])
    [] method = "processJSXTag" -> processJSXTag(s)
    [] method = "processTagIntro" -> processTagIntro(s)
    [] method = "TagIntroLoop" -> TagIntroLoop(s, args[1])
    [] method = "processProps" -> processProps(s, args[1])
    [] method = "PropsLoop" -> PropsLoop(s)
    [] method = "processChildren" -> processChildren(s)

----------------------------------------------------------------------------
(* Transformer.getPrefixCode / getSuffixCode *)

\* the transformers whose classes are outside this excerpt
OpaquePrefixCode(t) ==
  CASE t = "NumericSeparatorTransformer" -> <<"/*prefix:NumericSeparator*/">>
    [] t = "OptionalCatchBindingTransformer" -> <<"/*prefix:OptionalCatchBinding*/">>
    [] t = "ReactDisplayNameTransformer" -> <<"/*prefix:ReactDisplayName*/">>
    [] t = "ImportTransformer" -> <<"/*prefix:Import*/">>
    [] t = "FlowTransformer" -> <<"/*prefix:Flow*/">>
    [] t = "TypeScriptTransformer" -> <<"/*prefix:TypeScript*/">>
    [] OTHER -> <<>>

OpaqueSuffixCode(t) ==
  CASE t = "NumericSeparatorTransformer" -> <<"/*suffix:NumericSeparator*/">>
    [] t = "OptionalCatchBindingTransformer" -> <<"/*suffix:OptionalCatchBinding*/">>
    [] t = "ReactDisplayNameTransformer" -> <<"/*suffix:ReactDisplayName*/">>
    [] t = "ImportTransformer" -> <<"/*suffix:Import*/">>
    [] t = "FlowTransformer" -> <<"/*suffix:Flow*/">>
    [] t = "TypeScriptTransformer" -> <<"/*suffix:TypeScript*/">>
    [] OTHER -> <<>>

\* JSXTransformer.getPrefixCode, with filePath null: JSON.stringify("") is ""
getPrefixCode(t, s) ==
  IF t = "JSXTransformer"
  THEN IF s.filenameVarName # "" THEN <<"const ", s.filenameVarName, " = ", "\"\"", ";">>
       ELSE <<>>
  ELSE IF opaque THEN OpaquePrefixCode(t) ELSE <<>>

getSuffixCode(t, s) ==
  IF t = "JSXTransformer" THEN <<>>
  ELSE IF opaque THEN OpaqueSuffixCode(t) ELSE <<>>

----------------------------------------------------------------------------
(* RootTransformer: constructor and transform *)

AllTransforms == {"imports", "flow", "typescript", "jsx", "add-module-exports"}

TransformerChainFlowFirst(T) ==
  <<"NumericSeparatorTransformer", "OptionalCatchBindingTransformer">>
    \o (IF "jsx" \in T THEN <<"JSXTransformer", "ReactDisplayNameTransformer">> ELSE <<>>)
    \o (IF "flow" \in T THEN <<"FlowTransformer">> ELSE <<>>)
    \o (IF "imports" \in T THEN <<"ImportTransformer">> ELSE <<>>)
    \o (IF "typescript" \in T /\ "imports" \in T THEN <<"TypeScriptTransformer">> ELSE <<>>)

\* the transformers pushed by the constructor for the extension set T; with
\* typescript and no imports these are the ones pushed before the throw
TransformerChain(T) ==
  <<"NumericSeparatorTransformer", "OptionalCatchBindingTransformer">>
    \o (IF "jsx" \in T THEN <<"JSXTransformer", "ReactDisplayNameTransformer">> ELSE <<>>)
    \o (IF "imports" \in T THEN <<"ImportTransformer">> ELSE <<>>)
    \o (IF "flow" \in T THEN <<"FlowTransformer">> ELSE <<>>)
    \o (IF "typescript" \in T /\ "imports" \in T THEN <<"TypeScriptTransformer">> ELSE <<>>)

ConstructorThrowsOnlyWithoutFlow(T) ==
  "typescript" \in T /\ "imports" \notin T /\ "flow" \notin T

ConstructorThrows(T) == "typescript" \in T /\ "imports" \notin T

\* the prefix transform() builds
PrefixCode(s) ==
  (IF "ImportTransformer" \in Range(transformers) THEN <<"\"use strict\";">> ELSE <<>>)
    \o Flatten([k \in 1..Len(transformers) |-> getPrefixCode(transformers[k], s)])
    \o Flatten([k \in 1..Len(s.generatedVariables) |->
                  <<" var ", s.generatedVariables[k], ";">>])

SuffixCode(s) == Flatten([k \in 1..Len(transformers) |-> getSuffixCode(transformers[k], s)])

TransformResultStrictEverywhere(s) ==
  <<"\"use strict\";">> \o Finish(s) \o SuffixCode(s)

TransformResultPrefixFirst(s) == PrefixCode(s) \o Finish(s) \o SuffixCode(s)

\* the string transform() returns from the state s the walk ended in
TransformResult(s) ==
  LET prefix == PrefixCode(s)
      suffix == SuffixCode(s)
      code == Finish(s)
      found == IndexOfNewline(code)
      newlineIndex == IF found = -1 THEN Len(code) ELSE found
      terminated == IF found = -1 THEN code \o <<"\n">> ELSE code
  IN IF StartsWithShebang(code)
     THEN Slice(terminated, 0, newlineIndex + 1) \o prefix
            \o Slice(terminated, newlineIndex + 1, Len(terminated)) \o suffix
     ELSE prefix \o Finish(s) \o suffix

\* new RootTransformer(sucraseContext, T, null)
Construct(T) ==
  /\ pc = "new"
  /\ transforms' = T
  /\ transformers' = TransformerChain(T)
  /\ pc' = IF ConstructorThrows(T) THEN "configError" ELSE "constructed"
  /\ failure' = IF ConstructorThrows(T)
                THEN "The TypeScript transform without the import transform is not yet supported."
                ELSE failure
  /\ UNCHANGED <<opaque, tokens, classInfos, tokenIndex, resultCode, generatedVariables,
                 usedNames, lastLineNumber, lastIndex, filenameVarName, output, program>>

\* rootTransformer.transform()
Transform ==
  /\ pc = "constructed"
  /\ LET reset == [RunState EXCEPT !.tokenIndex = 0, !.resultCode = <<>>]
         s == processBalancedCode(reset)
     IN /\ tokenIndex' = s.tokenIndex
        /\ resultCode' = s.resultCode
        /\ generatedVariables' = s.generatedVariables
        /\ usedNames' = s.usedNames
        /\ lastLineNumber' = s.lastLineNumber
        /\ lastIndex' = s.lastIndex
        /\ filenameVarName' = s.filenameVarName
        /\ failure' = s.failure
        /\ pc' = IF Failed(s) THEN "failed" ELSE "done"
        /\ output' = IF Failed(s) THEN <<>> ELSE TransformResult(s)
  /\ UNCHANGED <<transforms, transformers, opaque, tokens, classInfos, program>>

\* a call of rootTransformer.processBalancedCode() made with the cursor at `start`,
\* as a transformer makes it after consuming the tokens before it
Balance(start) ==
  /\ pc = "constructed"
  /\ LET s == processBalancedCode([RunState EXCEPT !.tokenIndex = start, !.resultCode = <<>>])
     IN /\ tokenIndex' = s.tokenIndex
        /\ resultCode' = s.resultCode
        /\ failure' = s.failure
        /\ pc' = IF Failed(s) THEN "failed" ELSE "returned"
  /\ UNCHANGED <<transforms, transformers, opaque, tokens, classInfos, program,
                 generatedVariables, usedNames, lastLineNumber, lastIndex, filenameVarName,
                 output>>

----------------------------------------------------------------------------
(* The programs.  A program is described by its parts; TokensOf is the token
   sequence the parser leaves for it, ClassInfosOf what getClassInfo derives
   for each of its class tokens. *)

Eof(ws) == Token("eof", ws, <<>>)

\* what may stand before the first token: nothing, a blank line, a shebang line
Shebang == <<"#", "!", "n">>

Leads == {<<>>, <<"\n">>, Shebang \o <<"\n">>, Shebang \o <<"\n", "\n">>}

\* x = 1;
AssignBody ==
  <<Token("name", <<>>, <<"x">>), Token("eq", <<" ">>, <<"=">>),
    Token("num", <<" ">>, <<"1">>), Token("semi", <<>>, <<";">>)>>

\* f(a) { b }
BlockBody ==
  <<Token("name", <<>>, <<"f">>), Token("parenL", <<>>, <<"(">>),
    Token("name", <<>>, <<"a">>), Token("parenR", <<>>, <<")">>),
    Token("braceL", <<" ">>, <<"{">>), Token("name", <<" ">>, <<"b">>),
    Token("braceR", <<"\n">>, <<"}">>)>>

PlainBody(body) ==
  CASE body = "assign" -> AssignBody
    [] body = "block" -> BlockBody
    [] body = "both" -> AssignBody \o BlockBody
    [] OTHER -> <<>>

\* the lead goes before the first token, the trail before the end of the file
WithLead(lead, body, trail) ==
  IF body = <<>> THEN <<Eof(lead \o trail)>>
  ELSE <<[body[1] EXCEPT !.ws = lead \o @]>> \o Tail(body) \o <<Eof(trail)>>

\* the last program is a file that is only a shebang line without its line end
PlainPrograms ==
  {[kind |-> "plain", lead |-> lead, body |-> body, trail |-> trail] :
     lead \in Leads, body \in {"none", "assign", "block", "both"}, trail \in {<<>>, <<"\n">>}}
  \cup {[kind |-> "plain", lead |-> Shebang, body |-> "none", trail |-> <<>>]}

(* Classes.  ClassTokens is the token sequence of one class, ClassInfoOf its
   ClassInfo: the field ranges, the initializer statements of the instance
   fields, the suffixes of the static fields and the place in an existing
   constructor where the initializers go. *)

MaxFields == 2

FieldKinds == {"instance", "static", "bare"}

FieldName(i) ==
  CASE i = 1 -> "f1" [] i = 2 -> "f2" [] i = 3 -> "f3" [] i = 4 -> "f4" [] OTHER -> "fn"

InitializerStatement(i) ==
  CASE i = 1 -> "this.f1 = 1" [] i = 2 -> "this.f2 = 1" [] i = 3 -> "this.f3 = 1"
    [] i = 4 -> "this.f4 = 1" [] OTHER -> "this.fn = 1"

StaticInitializerSuffix(i) ==
  CASE i = 1 -> ".f1 = 1" [] i = 2 -> ".f2 = 1" [] i = 3 -> ".f3 = 1"
    [] i = 4 -> ".f4 = 1" [] OTHER -> ".fn = 1"

\* the tokens of the i-th field: `f = 1;`, `static f = 1;` or `f;`
FieldTokens(kind, i) ==
  (IF kind = "static" THEN <<Token("name", <<"\n">>, <<"static">>)>> ELSE <<>>)
    \o <<Token("name", <<" ">>, <<FieldName(i)>>)>>
    \o (IF kind = "bare" THEN <<>>
        ELSE <<Token("eq", <<" ">>, <<"=">>), Token("num", <<" ">>, <<"1">>)>>)
    \o <<Token("semi", <<>>, <<";">>)>>

\* a class expression is the right-hand side of `x = ...;`
ClassPrefix(c) ==
  IF c.isExpression
  THEN <<Token("name", <<"\n">>, <<"x">>), Token("eq", <<" ">>, <<"=">>)>>
  ELSE <<>>

ClassHeader(c, ctx) ==
  <<CToken("_class", IF c.isExpression THEN <<" ">> ELSE <<"\n">>, <<"class">>, ctx)>>
    \o (IF c.named THEN <<Token("name", <<" ">>, <<"A">>)>> ELSE <<>>)
    \o (IF c.hasSuperclass
        THEN <<Token("_extends", <<" ">>, <<"extends">>), Token("name", <<" ">>, <<"B">>)>>
        ELSE <<>>)
    \o <<CToken("braceL", <<" ">>, <<"{">>, ctx)>>

ClassFields(c) == Flatten([i \in 1..Len(c.fields) |-> FieldTokens(c.fields[i], i)])

\* constructor() { } or constructor() { super(); }
ClassConstructor(c) ==
  IF ~c.hasConstructor THEN <<>>
  ELSE <<Token("name", <<"\n">>, <<"constructor">>), Token("parenL", <<>>, <<"(">>),
         Token("parenR", <<>>, <<")">>), Token("braceL", <<" ">>, <<"{">>)>>
         \o (IF c.hasSuperclass
             THEN <<Token("_super", <<" ">>, <<"super">>), Token("parenL", <<>>, <<"(">>),
                    Token("parenR", <<>>, <<")">>), Token("semi", <<>>, <<";">>)>>
             ELSE <<>>)
         \o <<Token("braceR", <<" ">>, <<"}">>)>>

ClassTokens(c, ctx) ==
  ClassPrefix(c) \o ClassHeader(c, ctx) \o ClassFields(c) \o ClassConstructor(c)
    \o <<CToken("braceR", <<"\n">>, <<"}">>, ctx)>>
    \o (IF c.isExpression THEN <<Token("semi", <<>>, <<";">>)>> ELSE <<>>)

\* the index, within the class's tokens, of the first token of field i
FieldStart(c, i) ==
  Len(ClassPrefix(c)) + Len(ClassHeader(c, 1))
    + Len(Flatten([j \in 1..(i - 1) |-> FieldTokens(c.fields[j], j)]))

\* the positions of the fields of a kind, in rising order
FieldsOfKind(c, kind) ==
  LET S == {i \in 1..Len(c.fields) : c.fields[i] = kind}
  IN [k \in 1..Cardinality(S) |-> CHOOSE i \in S : Cardinality({j \in S : j < i}) = k - 1]

\* the ClassInfo of a class whose first token is the token at index `at`
ClassInfoOf(c, at) ==
  [headerInfo |-> [isExpression |-> c.isExpression,
                   className |-> IF c.named THEN "A" ELSE "",
                   hasSuperclass |-> c.hasSuperclass],
   constructorInsertPos |->
     IF ~c.hasConstructor THEN NoInsertPos
     ELSE at + FieldStart(c, Len(c.fields) + 1) + (IF c.hasSuperclass THEN 6 ELSE 3),
   initializerStatements |->
     [k \in 1..Len(FieldsOfKind(c, "instance")) |->
        InitializerStatement(FieldsOfKind(c, "instance")[k])],
   staticInitializerSuffixes |->
     [k \in 1..Len(FieldsOfKind(c, "static")) |->
        StaticInitializerSuffix(FieldsOfKind(c, "static")[k])],
   fieldRanges |->
     [i \in 1..Len(c.fields) |->
        [start |-> at + FieldStart(c, i), end |-> at + FieldStart(c, i + 1)]]]

\* a class statement has a name; a class expression may have none
Classes ==
  {c \in [isExpression : BOOLEAN, named : BOOLEAN, hasSuperclass : BOOLEAN,
          hasConstructor : BOOLEAN, fields : SeqsUpTo(FieldKinds, MaxFields)] :
     c.isExpression \/ c.named}

\* the classes of the programs that hold two: expressions without a constructor
\* or a superclass, with static fields only
PairedClasses ==
  {c \in Classes : /\ c.isExpression /\ ~c.hasConstructor /\ ~c.hasSuperclass
                   /\ Len(c.fields) <= 1 /\ \A i \in 1..Len(c.fields) : c.fields[i] = "static"}

ClassPrograms == {[kind |-> "class", lead |-> <<>>, classes |-> <<c>>] : c \in Classes}

ClassPairPrograms ==
  {[kind |-> "class", lead |-> lead, classes |-> <<c, d>>] :
     lead \in {<<>>, Shebang \o <<"\n">>}, c \in PairedClasses, d \in PairedClasses}

(* JSX.  A tag program is `x = <name attributes/>;` or `x = <name attributes></name>;`,
   a text program `x = <a>text</a>;`, cut into the tokens the JSX parser makes. *)

\* element names: one identifier, a member expression, a namespaced name
TagNames ==
  {[parts |-> <<<<"d", "v">>>>, sep |-> "dot"],
   [parts |-> <<<<"F", "o">>>>, sep |-> "dot"],
   [parts |-> <<<<"_", "F">>>>, sep |-> "dot"],
   [parts |-> <<<<"$", "x">>>>, sep |-> "dot"],
   [parts |-> <<<<"a">>, <<"b">>>>, sep |-> "dot"],
   [parts |-> <<<<"A">>, <<"B">>>>, sep |-> "dot"],
   [parts |-> <<<<"a">>, <<"b">>>>, sep |-> "colon"]}

NameTokens(name) ==
  Flatten([i \in 1..Len(name.parts) |->
             (IF i = 1 THEN <<>>
              ELSE <<Token(name.sep, <<>>, <<IF name.sep = "dot" THEN "." ELSE ":">>)>>)
               \o <<Token("jsxName", <<>>, name.parts[i])>>])

MaxAttrs == 2

\* a="v", a={e}, a, {...s}, data-a="v"
AttrKinds == {"string", "expr", "bare", "spread", "dashed", "bareDashed"}

AttrName(i) == CASE i = 1 -> "a1" [] i = 2 -> "a2" [] i = 3 -> "a3" [] OTHER -> "an"

AttrValue(i) == CASE i = 1 -> "v1" [] i = 2 -> "v2" [] i = 3 -> "v3" [] OTHER -> "vn"

\* the tokens of the i-th attribute
AttrTokens(kind, i) ==
  CASE kind = "string" ->
         <<Token("jsxName", <<" ">>, <<AttrName(i)>>), Token("eq", <<>>, <<"=">>),
           Token("string", <<>>, <<"\"", AttrValue(i), "\"">>)>>
    [] kind = "dashed" ->
         <<Token("jsxName", <<" ">>, <<"data", "-", AttrName(i)>>), Token("eq", <<>>, <<"=">>),
           Token("string", <<>>, <<"\"", AttrValue(i), "\"">>)>>
    [] kind = "expr" ->
         <<Token("jsxName", <<" ">>, <<AttrName(i)>>), Token("eq", <<>>, <<"=">>),
           Token("braceL", <<>>, <<"{">>), Token("name", <<>>, <<AttrValue(i)>>),
           Token("braceR", <<>>, <<"}">>)>>
    [] kind = "bare" -> <<Token("jsxName", <<" ">>, <<AttrName(i)>>)>>
    [] kind = "bareDashed" -> <<Token("jsxName", <<" ">>, <<"data", "-", AttrName(i)>>)>>
    [] kind = "spread" ->
         <<Token("braceL", <<" ">>, <<"{">>), Token("ellipsis", <<>>, <<"...">>),
           Token("name", <<>>, <<AttrValue(i)>>), Token("braceR", <<>>, <<"}">>)>>

\* <name attributes/> or <name attributes>children</name>
ElementTokens(name, attrs, closing, children) ==
  <<Token("jsxTagStart", <<" ">>, <<"<">>)>> \o NameTokens(name)
    \o Flatten([i \in 1..Len(attrs) |-> AttrTokens(attrs[i], i)])
    \o (IF closing = "self"
        THEN <<Token("slash", <<>>, <<"/">>), Token("jsxTagEnd", <<>>, <<">">>)>>
        ELSE <<Token("jsxTagEnd", <<>>, <<">">>)>> \o children
               \o <<Token("jsxTagStart", <<>>, <<"<">>), Token("slash", <<>>, <<"/">>)>>
               \o NameTokens(name) \o <<Token("jsxTagEnd", <<>>, <<">">>)>>)

\* x = element;
AssignedElement(element) ==
  <<Token("name", <<>>, <<"x">>), Token("eq", <<" ">>, <<"=">>)>> \o element
    \o <<Token("semi", <<>>, <<";">>), Eof(<<"\n">>)>>

\* every name with at most one attribute; two names with every attribute list
TagPrograms ==
  {p \in [kind : {"tag"}, name : TagNames, attrs : SeqsUpTo(AttrKinds, MaxAttrs),
          closing : {"self", "pair"}] :
     \/ Len(p.attrs) <= 1
     \/ p.closing = "self" /\ p.name.parts \in {<<<<"d", "v">>>>, <<<<"A">>, <<"B">>>>}}

MaxTextLen == 3

WhitespaceCharacters == {" ", "\t", "\r", "\n"}

TextAlphabet == WhitespaceCharacters \cup {"x"}

\* a jsxText token is never empty
TextPrograms ==
  {[kind |-> "text", text |-> t] : t \in SeqsUpTo(TextAlphabet, MaxTextLen) \ {<<>>}}

\* what may follow a `&`, and the character the reference stands for ("" when
\* it stands for none): named, decimal and hexadecimal references, unknown
\* names, malformed numbers, a `;` at the tenth and at the eleventh character,
\* no `;` at all, and a number past the last code point, on which the run throws
EntityBodies ==
  {[chars |-> <<"a", "m", "p", ";">>, value |-> "&"],
   [chars |-> <<"l", "t", ";">>, value |-> "<"],
   [chars |-> <<"#", "6", "5", ";">>, value |-> "A"],
   [chars |-> <<"#", "x", "4", "1", ";">>, value |-> "A"],
   [chars |-> <<"#", "0", "0", "0", "0", "0", "0", "6", "5", ";">>, value |-> "A"],
   [chars |-> <<"#", "0", "0", "0", "0", "0", "0", "0", "6", "5", ";">>, value |-> ""],
   [chars |-> <<"z", "z", "z", ";">>, value |-> ""],
   [chars |-> <<"#", ";">>, value |-> ""],
   [chars |-> <<"#", "6", "a", ";">>, value |-> ""],
   [chars |-> <<"#", "x", "g", ";">>, value |-> ""],
   [chars |-> <<"#", "x", "1", "1", "0", "0", "0", "0", ";">>, value |-> "<RangeError>"],
   [chars |-> <<"a", "m", "p">>, value |-> ""],
   [chars |-> <<";">>, value |-> ""],
   [chars |-> <<>>, value |-> ""]}

EntityPrograms ==
  {[kind |-> "entity", pre |-> pre, body |-> body, post |-> post,
    text |-> pre \o <<"&">> \o body.chars \o post] :
     pre \in {<<>>, <<"x">>}, body \in EntityBodies, post \in {<<>>, <<"y">>}}

(* Brackets.  A bracket program is any sequence of braces, template openers,
   parentheses and names, and the cursor a call of processBalancedCode starts at. *)

MaxBrackets == 3

BracketTypes == {"braceL", "dollarBraceL", "braceR", "parenL", "parenR", "name"}

BracketText(type) ==
  CASE type = "braceL" -> "{" [] type = "dollarBraceL" -> "${" [] type = "braceR" -> "}"
    [] type = "parenL" -> "(" [] type = "parenR" -> ")" [] OTHER -> "n"

BracketPrograms ==
  {p \in [kind : {"brackets"}, types : SeqsUpTo(BracketTypes, MaxBrackets), start : 0..1] :
     p.start <= Len(p.types)}

\* the index of the first token of the k-th class of a program
ClassOffset(p, k) == Len(Flatten([j \in 1..(k - 1) |-> ClassTokens(p.classes[j], j)]))

TokensOf(p) ==
  CASE p.kind = "plain" -> WithLead(p.lead, PlainBody(p.body), p.trail)
    [] p.kind = "class" ->
         WithLead(p.lead, Flatten([k \in 1..Len(p.classes) |-> ClassTokens(p.classes[k], k)]),
                  <<"\n">>)
    [] p.kind = "brackets" ->
         [i \in 1..Len(p.types) |-> Token(p.types[i], <<" ">>, <<BracketText(p.types[i])>>)]
           \o <<Eof(<<"\n">>)>>
    [] p.kind = "tag" -> AssignedElement(ElementTokens(p.name, p.attrs, p.closing, <<>>))
    [] p.kind \in {"text", "entity"} ->
         AssignedElement(ElementTokens([parts |-> <<<<"a">>>>, sep |-> "dot"], <<>>, "pair",
                                       <<Token("jsxText", <<>>, p.text)>>))

\* keyed by the index of each class token
ClassInfosOf(p) ==
  IF p.kind # "class" THEN <<>>
  ELSE LET at == {ClassOffset(p, k) + Len(ClassPrefix(p.classes[k])) : k \in 1..Len(p.classes)}
       IN [i \in at |->
             LET k == CHOOSE k \in 1..Len(p.classes) :
                        i = ClassOffset(p, k) + Len(ClassPrefix(p.classes[k]))
             IN ClassInfoOf(p.classes[k], ClassOffset(p, k))]

----------------------------------------------------------------------------
(* Specifications *)

InitWith(p, o) ==
  /\ pc = "new"
  /\ program = p
  /\ tokens = TokensOf(p)
  /\ classInfos = ClassInfosOf(p)
  /\ opaque = o
  /\ transforms = {}
  /\ transformers = <<>>
  /\ tokenIndex = 0
  /\ resultCode = <<>>
  /\ generatedVariables = <<>>
  /\ usedNames = {}
  /\ lastLineNumber = 1
  /\ lastIndex = 0
  /\ filenameVarName = ""
  /\ failure = ""
  /\ output = <<>>

\* The orchestrator: every extension set, over the plain programs and the
\* programs of two class expressions
Init == \E p \in PlainPrograms \cup ClassPairPrograms, o \in BOOLEAN : InitWith(p, o)

Next ==
  \/ \E T \in SUBSET AllTransforms : Construct(T)
  \/ Transform

Spec == Init /\ [][Next]_vars

\* The class rewrite: every class, under a few extension sets
ClassTransforms == {{}, {"imports"}, {"jsx", "flow"}}

InitClass == \E p \in ClassPrograms : InitWith(p, FALSE)

NextClass ==
  \/ \E T \in ClassTransforms : Construct(T)
  \/ Transform

SpecClass == InitClass /\ [][NextClass]_vars

\* The JSX rewrite of a tag and of a text child, with the jsx extension enabled
JSXTransforms == {{"jsx"}, {"jsx", "imports"}}

InitJSX == \E p \in TagPrograms : InitWith(p, FALSE)

NextJSX ==
  \/ \E T \in JSXTransforms : Construct(T)
  \/ Transform

SpecJSX == InitJSX /\ [][NextJSX]_vars

InitText == \E p \in TextPrograms \cup EntityPrograms : InitWith(p, FALSE)

NextText ==
  \/ \E T \in JSXTransforms : Construct(T)
  \/ Transform

SpecText == InitText /\ [][NextText]_vars

\* processBalancedCode on its own, from the start of the tokens and from within them
InitBalanced == \E p \in BracketPrograms : InitWith(p, FALSE)

NextBalanced ==
  \/ Construct({})
  \/ Balance(program.start)

SpecBalanced == InitBalanced /\ [][NextBalanced]_vars

----------------------------------------------------------------------------
(* The parser.  The tokenizer and the expression parser are outside the
   sources.  The input is a sequence of atoms: the characters of the source
   of a JSX program and, for a binding program, one atom per token, named
   after its type.  `st` is the parser's state: the place in the input, the
   current token (its type, start and end), the tokens pushed so far, whether
   tokens are pushed as type tokens, and the error thrown ("" for none).  A
   token is pushed when the parser moves past it. *)

Input == IF program.kind = "binding" THEN program.types ELSE program.source \o <<";">>

\* input.charCodeAt(i); past the end of the input it is no character
CharAt(i) == IF i < Len(Input) THEN Input[i + 1] ELSE ""

\* the type of the token at a 0-based place of a binding program; past its end, eof
InputType(i) == IF i < Len(program.types) THEN program.types[i + 1] ELSE "eof"

IdentifierStartCharacters == {"a", "b", "c", "d", "e", "t", "v", "x"}

isIdentifierStart(code) == code \in IdentifierStartCharacters

isIdentifierChar(code) == code \in IdentifierStartCharacters \cup {"0", "1"}

finishToken(st, type) == [st EXCEPT !.end = st.pos, !.type = type]

raise(st, pos, message) ==
  IF st.error # "" THEN st ELSE [st EXCEPT !.error = message, !.errorPos = pos]

unexpected(st) == raise(st, st.start, "Unexpected token")

RECURSIVE skipSpace(_)
skipSpace(st) ==
  IF CharAt(st.pos) \in {" ", "\n"} THEN skipSpace([st EXCEPT !.pos = @ + 1]) ELSE st

RECURSIVE readWord(_)
\* an identifier of the plain tokenizer
readWord(st) ==
  IF isIdentifierChar(CharAt(st.pos)) THEN readWord([st EXCEPT !.pos = @ + 1])
  ELSE finishToken(st, "name")

\* the punctuation of the inputs; an atom that names a token type is that token
getTokenFromCode(st, code) ==
  LET one == [st EXCEPT !.pos = @ + 1]
  IN CASE code = "{" -> finishToken(one, "braceL")
       [] code = "}" -> finishToken(one, "braceR")
       [] code = ";" -> finishToken(one, "semi")
       [] code = "<" -> finishToken(one, "lessThan")
       [] code = ">" -> finishToken(one, "greaterThan")
       [] code = "/" -> finishToken(one, "slash")
       [] code = "=" -> finishToken(one, "eq")
       [] code = ":" -> finishToken(one, "colon")
       [] code = "." ->
            IF CharAt(st.pos + 1) = "." /\ CharAt(st.pos + 2) = "."
            THEN finishToken([st EXCEPT !.pos = @ + 3], "ellipsis")
            ELSE finishToken(one, "dot")
       [] OTHER -> finishToken(one, code)

readToken(st, code) ==
  IF isIdentifierStart(code) THEN readWord(st) ELSE getTokenFromCode(st, code)

nextToken(st) ==
  LET s1 == skipSpace(st)
      s2 == [s1 EXCEPT !.start = s1.pos]
  IN IF s2.pos >= Len(Input) THEN finishToken(s2, "eof")
     ELSE readToken(s2, CharAt(s2.pos))

\* state.tokens.push(new Token(state))
PushToken(st) ==
  [st EXCEPT !.tokens = Append(@, [type |-> st.type, start |-> st.start, end |-> st.end,
                                   isType |-> st.isType, identifierRole |-> ""])]

\* the state when the parser is called: the first token is read
ParserState ==
  nextToken([pos |-> 0, start |-> 0, end |-> 0, type |-> "eof", tokens |-> <<>>,
             isType |-> FALSE, error |-> "", errorPos |-> 0])

next(st) == IF st.error # "" THEN st ELSE nextToken(PushToken(st))

match(st, type) == st.type = type

\* eat(type) moves on when the current token has the type; its result is match()
eat(st, type) == IF match(st, type) THEN next(st) ELSE st

expect(st, type) ==
  IF st.error # "" THEN st
  ELSE IF match(st, type) THEN next(st)
  ELSE unexpected(st)

\* runInTypeContext(0, () => next()): the token is pushed as a type token
NextInTypeContext(st) == [next([st EXCEPT !.isType = TRUE]) EXCEPT !.isType = st.isType]

hasPlugin(name) == name \in program.plugins

\* state.tokens[state.tokens.length - 1].identifierRole = role
StampLast(st, role) == [st EXCEPT !.tokens[Len(st.tokens)].identifierRole = role]

\* parseIdentifier(): next(), and the token pushed is a name
parseIdentifier(st) ==
  LET s1 == next(st) IN [s1 EXCEPT !.tokens[Len(s1.tokens)].type = "name"]

\* parseMaybeAssign(): an expression; those of the input are one name, number or this
parseMaybeAssign(st) ==
  IF st.error # "" THEN st
  ELSE IF st.type \in {"name", "num", "_this"} THEN next(st)
  ELSE unexpected(st)

\* flowParseAssignableListItemTypes / tsParseAssignableListItemTypes: an optional
\* annotation `: T`, pushed as type tokens; the types of the input are one name
TypeAnnotation(st) ==
  IF st.error # "" \/ ~match(st, "colon") THEN st
  ELSE LET s1 == NextInTypeContext(st)
       IN IF match(s1, "name") THEN NextInTypeContext(s1) ELSE unexpected(s1)

DeclarationRole(isBlockScope) ==
  IF isBlockScope THEN "BlockScopedDeclaration" ELSE "FunctionScopedDeclaration"

RECURSIVE ObjLoop(_, _, _)
\* parseObj(true, isBlockScope): { }, or shorthand properties { a, b }, each a
\* bound identifier
ObjLoop(st, isBlockScope, first) ==
  IF st.error # "" THEN st
  ELSE IF match(st, "braceR") THEN next(st)
  ELSE LET s1 == IF first THEN st ELSE expect(st, "comma")
       IN IF s1.error # "" THEN s1
          ELSE IF match(s1, "braceR") THEN next(s1)
          ELSE IF match(s1, "name")
          THEN ObjLoop(StampLast(parseIdentifier(s1), DeclarationRole(isBlockScope)),
                       isBlockScope, FALSE)
          ELSE unexpected(s1)

parseObj(st, isPattern, isBlockScope) == ObjLoop(next(st), isBlockScope, TRUE)

\* tsParseAccessModifier(), tsParseModifier([readonly]): the input holds no modifier
tsParseModifiers(st) == st

RECURSIVE LvalCall(_, _, _)

parseBindingIdentifier(st) == parseIdentifier(st)

parseBindingAtomStampsThis(st, isBlockScope) ==
  IF st.error # "" THEN st
  ELSE CASE st.type = "_this" ->
              StampLast(NextInTypeContext(st), DeclarationRole(isBlockScope))
         [] st.type \in {"_yield", "name"} ->
              StampLast(parseBindingIdentifier([st EXCEPT !.type = "name"]),
                        DeclarationRole(isBlockScope))
         [] st.type = "bracketL" ->
              LvalCall("parseBindingList", next(st), <<"bracketR", isBlockScope, TRUE, FALSE>>)
         [] st.type = "braceL" -> parseObj(st, TRUE, isBlockScope)
         [] OTHER -> unexpected(st)

parseBindingAtom(st, isBlockScope) ==
  IF st.error # "" THEN st
  ELSE CASE st.type = "_this" -> NextInTypeContext(st)
         [] st.type \in {"_yield", "name"} ->
              StampLast(parseBindingIdentifier([st EXCEPT !.type = "name"]),
                        DeclarationRole(isBlockScope))
         [] st.type = "bracketL" ->
              LvalCall("parseBindingList", next(st), <<"bracketR", isBlockScope, TRUE, FALSE>>)
         [] st.type = "braceL" -> parseObj(st, TRUE, isBlockScope)
         [] OTHER -> unexpected(st)

parseRest(st, isBlockScope) == LvalCall("parseBindingAtom", next(st), <<isBlockScope>>)

parseAssignableListItemTypes(st) ==
  IF hasPlugin("flow") THEN TypeAnnotation(st)
  ELSE IF hasPlugin("typescript") THEN TypeAnnotation(st)
  ELSE st

parseMaybeDefault(st, isBlockScope, leftAlreadyParsed) ==
  LET s1 == IF leftAlreadyParsed THEN st
            ELSE LvalCall("parseBindingAtom", st, <<isBlockScope>>)
  IN IF s1.error # "" \/ ~match(s1, "eq") THEN s1
     ELSE parseMaybeAssign(next(s1))

parseAssignableListItem(st, allowModifiers, isBlockScope) ==
  LET s1 == IF allowModifiers THEN tsParseModifiers(st) ELSE st
  IN parseMaybeDefault(
       parseAssignableListItemTypes(parseMaybeDefault(s1, isBlockScope, FALSE)),
       isBlockScope, TRUE)

\* the while (!eat(close)) loop of parseBindingList
BindingListLoop(st, close, isBlockScope, allowEmpty, allowModifiers, first, hasRemovedComma, firstItemTokenIndex) ==
  IF st.error # "" THEN st
  ELSE IF match(st, close) THEN next(st)
  ELSE LET s1 == IF first THEN st ELSE expect(st, "comma")
           removes == /\ ~first /\ s1.error = "" /\ ~hasRemovedComma
                      /\ s1.tokens[firstItemTokenIndex + 1].isType
           s2 == IF removes THEN [s1 EXCEPT !.tokens[Len(s1.tokens)].isType = TRUE] ELSE s1
           again(s) == LvalCall("BindingListLoop", s,
                                <<close, isBlockScope, allowEmpty, allowModifiers,
                                  FALSE, hasRemovedComma \/ removes, firstItemTokenIndex>>)
       IN IF s2.error # "" THEN s2
          ELSE IF allowEmpty /\ match(s2, "comma") THEN again(s2)
          ELSE IF match(s2, close) THEN next(s2)
          ELSE IF match(s2, "ellipsis")
          THEN expect(parseAssignableListItemTypes(
                        LvalCall("parseRest", s2, <<isBlockScope>>)), close)
          ELSE again(LvalCall("parseAssignableListItem", s2,
                              <<allowModifiers, isBlockScope>>))

parseBindingList(st, close, isBlockScope, allowEmpty, allowModifiers) ==
  BindingListLoop(st, close, isBlockScope, allowEmpty, allowModifiers,
                  TRUE, FALSE, Len(st.tokens))

LvalCall(method, st, args) ==
  CASE method = "parseBindingAtom" -> parseBindingAtom(st, args[1])
    [] method = "parseRest" -> parseRest(st, args[1])
    [] method = "parseAssignableListItem" -> parseAssignableListItem(st, args[1], args[2])
    [] method = "parseBindingList" ->
         parseBindingList(st, args[1], args[2], args[3], args[4])
    [] method = "BindingListLoop" ->
         BindingListLoop(st, args[1], args[2], args[3], args[4], args[5], args[6], args[7])

\* a declaration's or a catch clause's binding (parseBindingAtom), or the
\* parameters of a function after its opening parenthesis (parseBindingList)
ParseBinding ==
  /\ pc = "source"
  /\ LET st == IF program.entry = "atom"
               THEN LvalCall("parseBindingAtom", ParserState, <<program.isBlockScope>>)
               ELSE LvalCall("parseBindingList", ParserState,
                             <<"parenR", program.isBlockScope, FALSE, FALSE>>)
     IN /\ tokens' = st.tokens
        /\ failure' = st.error
        /\ pc' = IF st.error # "" THEN "syntaxError" ELSE "parsed"
  /\ UNCHANGED <<transforms, transformers, opaque, classInfos, program, tokenIndex,
                 resultCode, generatedVariables, usedNames, lastLineNumber, lastIndex,
                 filenameVarName, output>>

MaxBindingTokens == 3

BindingTokenTypes ==
  {"name", "_yield", "_this", "bracketL", "bracketR", "parenR", "comma", "ellipsis",
   "eq", "num"}

\* longer bindings: [a, [b, ...c]]   [, a = 1, ...[b]]   a: T = b, [c]: T)
\* this: T, a, b)   {a, b}   [{a}, yield = b]   [a, ...1]   [a, [b, 1]]
BindingPatterns ==
  {<<"bracketL", "name", "comma", "bracketL", "name", "comma", "ellipsis", "name",
     "bracketR", "bracketR">>,
   <<"bracketL", "comma", "name", "eq", "num", "comma", "ellipsis", "bracketL", "name",
     "bracketR", "bracketR">>,
   <<"name", "colon", "name", "eq", "name", "comma", "bracketL", "name", "bracketR",
     "colon", "name", "parenR">>,
   <<"_this", "colon", "name", "comma", "name", "comma", "name", "parenR">>,
   <<"braceL", "name", "comma", "name", "braceR">>,
   <<"bracketL", "braceL", "name", "braceR", "comma", "_yield", "eq", "name", "bracketR">>,
   <<"bracketL", "name", "comma", "ellipsis", "num">>,
   <<"bracketL", "name", "comma", "bracketL", "name", "comma", "num">>}

\* every short sequence of tokens without a plugin, the longer ones with each plugin
BindingPrograms ==
  [kind : {"binding"}, types : SeqsUpTo(BindingTokenTypes, MaxBindingTokens),
   entry : {"atom", "params"}, isBlockScope : BOOLEAN, plugins : {{}}]
  \cup [kind : {"binding"}, types : BindingPatterns, entry : {"atom", "params"},
        isBlockScope : BOOLEAN, plugins : {{}, {"flow"}, {"typescript"}}]

\* before the parser has run there is no token
InitSource(p) ==
  /\ pc = "source"
  /\ program = p
  /\ tokens = <<>>
  /\ classInfos = <<>>
  /\ opaque = FALSE
  /\ transforms = {}
  /\ transformers = <<>>
  /\ tokenIndex = 0
  /\ resultCode = <<>>
  /\ generatedVariables = <<>>
  /\ usedNames = {}
  /\ lastLineNumber = 1
  /\ lastIndex = 0
  /\ filenameVarName = ""
  /\ failure = ""
  /\ output = <<>>

InitBinding == \E p \in BindingPrograms : InitSource(p)

NextBinding == ParseBinding

SpecBinding == InitBinding /\ [][NextBinding]_vars

----------------------------------------------------------------------------
(* The JSX parser (sucrase-babylon/plugins/jsx/index.ts).  A method calls
   another through JSXCall(method, st): st is the parser's state before the
   call and the value is what the call returns, the state after it for all
   but jsxParseOpeningElement and lookaheadType. *)

RECURSIVE JSXCall(_, _)

jsxReadToken(st) ==
  IF st.pos >= Len(Input) THEN raise(st, st.start, "Unterminated JSX contents")
  ELSE LET ch == CharAt(st.pos)
       IN IF ch \in {"<", "{"}
          THEN IF st.pos = st.start
               THEN IF ch = "<"
                    THEN finishToken([st EXCEPT !.pos = @ + 1], "jsxTagStart")
                    ELSE getTokenFromCode(st, ch)
               ELSE finishToken(st, "jsxText")
          ELSE JSXCall("jsxReadToken", [st EXCEPT !.pos = @ + 1])

RECURSIVE StringLoop(_, _)
\* the for (;;) loop of jsxReadString
StringLoop(st, quote) ==
  IF st.pos >= Len(Input) THEN raise(st, st.start, "Unterminated string constant")
  ELSE IF CharAt(st.pos) = quote THEN finishToken([st EXCEPT !.pos = @ + 1], "string")
  ELSE StringLoop([st EXCEPT !.pos = @ + 1], quote)

jsxReadString(st, quote) == StringLoop([st EXCEPT !.pos = @ + 1], quote)

\* do { ch = input.charCodeAt(++pos) } while (isIdentifierChar(ch) || ch === dash)
jsxReadWord(st) ==
  LET s1 == [st EXCEPT !.pos = @ + 1]
  IN IF isIdentifierChar(CharAt(s1.pos)) \/ CharAt(s1.pos) = "-" THEN JSXCall("jsxReadWord", s1)
     ELSE finishToken(s1, "jsxName")

nextJSXTagToken(st) ==
  IF st.error # "" THEN st
  ELSE LET s1 == skipSpace(PushToken(st))
           s2 == [s1 EXCEPT !.start = s1.pos]
           code == CharAt(s2.pos)
           s3 == [s2 EXCEPT !.pos = @ + 1]
       IN IF isIdentifierStart(code) THEN JSXCall("jsxReadWord", s2)
          ELSE IF code \in {"\"", "'"} THEN jsxReadString(s2, code)
          ELSE CASE code = ">" -> finishToken(s3, "jsxTagEnd")
                 [] code = "/" -> finishToken(s3, "slash")
                 [] code = "=" -> finishToken(s3, "eq")
                 [] code = "{" -> finishToken(s3, "braceL")
                 [] code = "." -> finishToken(s3, "dot")
                 [] code = ":" -> finishToken(s3, "colon")
                 [] OTHER -> unexpected(s3)

nextJSXExprToken(st) ==
  IF st.error # "" THEN st
  ELSE JSXCall("jsxReadToken", [PushToken(st) EXCEPT !.start = st.pos])

jsxParseIdentifier(st) == JSXCall("nextJSXTagToken", st)

jsxParseNamespacedName(st) ==
  LET s1 == JSXCall("jsxParseIdentifier", st)
  IN IF s1.error # "" THEN s1
     ELSE IF ~match(s1, "colon") THEN StampLast(s1, "Access")
     ELSE JSXCall("jsxParseIdentifier", JSXCall("next", s1))

\* while (match(tt.dot)) { nextJSXTagToken(); jsxParseIdentifier(); }
ElementNameLoop(st) ==
  IF st.error # "" \/ ~match(st, "dot") THEN st
  ELSE JSXCall("ElementNameLoop", JSXCall("jsxParseIdentifier", JSXCall("nextJSXTagToken", st)))

jsxParseElementName(st) == JSXCall("ElementNameLoop", JSXCall("jsxParseNamespacedName", st))

\* parseExpression(): the expressions of the inputs are one atom
parseExpression(st) == JSXCall("parseExprAtom", st)

jsxParseEmptyExpression(st) == st

jsxParseSpreadChild(st) ==
  expect(JSXCall("parseExpression", expect(expect(st, "braceL"), "ellipsis")), "braceR")

jsxParseExpressionContainer(st) ==
  LET s1 == JSXCall("next", st)
  IN IF s1.error # "" THEN s1
     ELSE IF match(s1, "braceR") THEN JSXCall("jsxParseEmptyExpression", s1)
     ELSE JSXCall("parseExpression", s1)

jsxParseAttributeValue(st) ==
  IF st.error # "" THEN st
  ELSE CASE st.type = "braceL" -> JSXCall("nextJSXTagToken", JSXCall("jsxParseExpressionContainer", st))
         [] st.type = "jsxTagStart" -> JSXCall("nextJSXTagToken", JSXCall("jsxParseElement", st))
         [] st.type = "string" -> JSXCall("nextJSXTagToken", st)
         [] OTHER -> raise(st, st.start,
                           "JSX value should be either an expression or a quoted JSX text")

jsxParseAttribute(st) ==
  IF st.error # "" THEN st
  ELSE IF match(st, "braceL")
  THEN JSXCall("nextJSXTagToken", parseMaybeAssign(expect(JSXCall("next", st), "ellipsis")))
  ELSE LET s1 == JSXCall("jsxParseNamespacedName", st)
       IN IF s1.error = "" /\ match(s1, "eq")
          THEN JSXCall("jsxParseAttributeValue", JSXCall("nextJSXTagToken", s1))
          ELSE s1

\* while (!match(tt.slash) && !match(tt.jsxTagEnd)) jsxParseAttribute()
AttributesLoop(st) ==
  IF st.error # "" \/ match(st, "slash") \/ match(st, "jsxTagEnd") THEN st
  ELSE JSXCall("AttributesLoop", JSXCall("jsxParseAttribute", st))

\* the state when it returns, and what it returns
jsxParseOpeningElement(st) ==
  IF match(st, "jsxTagEnd")
  THEN [state |-> JSXCall("nextJSXExprToken", st), isSelfClosing |-> FALSE]
  ELSE LET s1 == JSXCall("AttributesLoop", JSXCall("jsxParseElementName", st))
       IN [state |-> IF match(s1, "slash") THEN JSXCall("nextJSXTagToken", s1) ELSE s1,
           isSelfClosing |-> match(s1, "slash")]

jsxParseClosingElement(st) ==
  IF st.error # "" THEN st
  ELSE IF match(st, "jsxTagEnd") THEN JSXCall("next", st)
  ELSE JSXCall("jsxParseElementName", st)

\* lookaheadType(): the type of the token after the current one
lookaheadType(st) == JSXCall("next", st).type

\* the contents: while (true) loop of jsxParseElementAt
Contents(st) ==
  IF st.error # "" THEN st
  ELSE CASE st.type = "jsxTagStart" ->
              LET s1 == JSXCall("nextJSXTagToken", st)
              IN IF s1.error # "" THEN s1
                 ELSE IF match(s1, "slash")
                 THEN JSXCall("jsxParseClosingElement", JSXCall("nextJSXTagToken", s1))
                 ELSE JSXCall("Contents", JSXCall("nextJSXExprToken", JSXCall("jsxParseElementAt", s1)))
         [] st.type = "jsxText" -> JSXCall("Contents", JSXCall("nextJSXExprToken", st))
         [] st.type = "braceL" ->
              IF JSXCall("lookaheadType", st) = "ellipsis"
              THEN JSXCall("Contents", JSXCall("jsxParseSpreadChild", st))
              ELSE JSXCall("Contents", JSXCall("nextJSXExprToken", JSXCall("jsxParseExpressionContainer", st)))
         [] OTHER -> unexpected(st)

jsxParseElementAt(st) ==
  IF st.error # "" THEN st
  ELSE LET opening == JSXCall("jsxParseOpeningElement", st)
       IN IF opening.state.error # "" \/ opening.isSelfClosing THEN opening.state
          ELSE JSXCall("Contents", JSXCall("nextJSXExprToken", opening.state))

jsxParseElement(st) == JSXCall("jsxParseElementAt", JSXCall("nextJSXTagToken", st))

\* parseLiteral(): the token is the literal
parseLiteral(st) == JSXCall("next", st)

\* super.parseExprAtom(): the other atoms of the inputs are names
superParseExprAtom(st) == IF match(st, "name") THEN JSXCall("next", st) ELSE unexpected(st)

parseExprAtom(st) ==
  IF st.error # "" THEN st
  ELSE IF match(st, "jsxText") THEN JSXCall("parseLiteral", st)
  ELSE IF match(st, "lessThan") /\ hasPlugin("jsx")
  THEN JSXCall("next", JSXCall("jsxParseElement", [st EXCEPT !.type = "jsxTagStart"]))
  ELSE JSXCall("superParseExprAtom", st)

JSXCall(method, st) ==
  CASE method = "next" -> next(st)
    [] method = "nextJSXTagToken" -> nextJSXTagToken(st)
    [] method = "nextJSXExprToken" -> nextJSXExprToken(st)
    [] method = "jsxParseIdentifier" -> jsxParseIdentifier(st)
    [] method = "jsxParseNamespacedName" -> jsxParseNamespacedName(st)
    [] method = "jsxParseElementName" -> jsxParseElementName(st)
    [] method = "jsxParseExpressionContainer" -> jsxParseExpressionContainer(st)
    [] method = "jsxParseAttributeValue" -> jsxParseAttributeValue(st)
    [] method = "jsxParseAttribute" -> jsxParseAttribute(st)
    [] method = "AttributesLoop" -> AttributesLoop(st)
    [] method = "jsxParseOpeningElement" -> jsxParseOpeningElement(st)
    [] method = "jsxParseClosingElement" -> jsxParseClosingElement(st)
    [] method = "jsxParseElementAt" -> jsxParseElementAt(st)
    [] method = "jsxParseElement" -> jsxParseElement(st)
    [] method = "jsxParseSpreadChild" -> jsxParseSpreadChild(st)
    [] method = "lookaheadType" -> lookaheadType(st)
    [] method = "Contents" -> Contents(st)
    [] method = "parseExprAtom" -> parseExprAtom(st)
    [] method = "parseExpression" -> parseExpression(st)
    [] method = "parseLiteral" -> parseLiteral(st)
    [] method = "superParseExprAtom" -> superParseExprAtom(st)
    [] method = "ElementNameLoop" -> ElementNameLoop(st)
    [] method = "jsxReadToken" -> jsxReadToken(st)
    [] method = "jsxReadWord" -> jsxReadWord(st)
    [] method = "jsxParseEmptyExpression" -> jsxParseEmptyExpression(st)

RECURSIVE RestOfProgram(_)
\* the statement parser after the expression: the tokens up to the end of the
\* input, and the eof token
RestOfProgram(st) ==
  IF st.error # "" THEN st
  ELSE IF match(st, "eof") THEN PushToken(st)
  ELSE RestOfProgram(next(st))

\* the tokens as the transformers read them: each with the text before it
ParsedTokens(st) ==
  [i \in 1..Len(st.tokens) |->
     [type |-> st.tokens[i].type,
      ws |-> Slice(Input, IF i = 1 THEN 0 ELSE st.tokens[i - 1].end, st.tokens[i].start),
      text |-> Slice(Input, st.tokens[i].start, st.tokens[i].end),
      contextId |-> NoContext,
      isType |-> st.tokens[i].isType]]

\* the parse of `element;`
ParseJSX ==
  /\ pc = "source"
  /\ LET st == RestOfProgram(JSXCall("parseExprAtom", ParserState))
     IN /\ tokens' = IF st.error # "" THEN <<>> ELSE ParsedTokens(st)
        /\ failure' = st.error
        /\ pc' = IF st.error # "" THEN "syntaxError" ELSE "new"
  /\ UNCHANGED <<transforms, transformers, opaque, classInfos, program, tokenIndex,
                 resultCode, generatedVariables, usedNames, lastLineNumber, lastIndex,
                 filenameVarName, output>>

\* JSXTransformer.process() with the cursor on the first token
ProcessJSX ==
  /\ pc = "constructed"
  /\ LET s == IF Matches1(RunState, "jsxTagStart")
              THEN Call("processJSXTag", RunState, <<>>)
              ELSE RunState
     IN /\ tokenIndex' = s.tokenIndex
        /\ resultCode' = s.resultCode
        /\ generatedVariables' = s.generatedVariables
        /\ usedNames' = s.usedNames
        /\ lastLineNumber' = s.lastLineNumber
        /\ lastIndex' = s.lastIndex
        /\ filenameVarName' = s.filenameVarName
        /\ failure' = s.failure
        /\ pc' = IF Failed(s) THEN "failed" ELSE "returned"
  /\ UNCHANGED <<transforms, transformers, opaque, tokens, classInfos, program, output>>

(* JSX sources.  A piece is a stretch of source with what is known of it: whether
   a closing tag names another element than its opening tag, how many elements
   it holds, and whether one of them is a fragment. *)

Piece(source, mismatch, elements, fragments) ==
  [source |-> source, mismatch |-> mismatch, elements |-> elements,
   fragments |-> fragments]

TextChild == Piece(<<"t">>, FALSE, 0, FALSE)

ExpressionChild == Piece(<<"{", "x", "}">>, FALSE, 0, FALSE)

RECURSIVE ElementsIn(_)
ElementsIn(children) ==
  IF children = <<>> THEN 0 ELSE Head(children).elements + ElementsIn(Tail(children))

SelfClosingElement(name, attributes) ==
  Piece(<<"<">> \o name \o attributes \o <<"/", ">">>, FALSE, 1, FALSE)

\* <open attributes>children</close>; the empty name makes a fragment tag
PairedElement(open, attributes, children, close) ==
  Piece(<<"<">> \o open \o attributes \o <<">">>
          \o Flatten([i \in 1..Len(children) |-> children[i].source])
          \o <<"<", "/">> \o close \o <<">">>,
        open # close \/ \E i \in 1..Len(children) : children[i].mismatch,
        1 + ElementsIn(children),
        open = <<>> \/ close = <<>> \/ \E i \in 1..Len(children) : children[i].fragments)

ElementNames == {<<>>, <<"a">>, <<"b">>}

AttributeTexts ==
  {<<" ", "c", "=", "\"", "v", "\"">>, <<" ", "d", "-", "e">>,
   <<" ", "c", "=", "{", "x", "}">>, <<" ", "{", ".", ".", ".", "x", "}">>,
   <<" ", "c", ":", "d", "=", "'", "v", "'", " ", "e">>}

\* the elements that stand as children
InnerElements ==
  {SelfClosingElement(<<"b">>, <<>>),
   SelfClosingElement(<<"a">>, <<" ", "c", "=", "\"", "v", "\"">>),
   PairedElement(<<"a">>, <<>>, <<>>, <<"a">>),
   PairedElement(<<"a">>, <<>>, <<TextChild>>, <<"a">>),
   PairedElement(<<"a">>, <<>>, <<>>, <<"b">>),
   PairedElement(<<>>, <<>>, <<TextChild>>, <<>>),
   PairedElement(<<>>, <<>>, <<>>, <<>>),
   PairedElement(<<"a">>, <<>>, <<>>, <<>>)}

MaxChildren == 2

NestedElements ==
  {PairedElement(open, <<>>, children, close) :
     open \in ElementNames, close \in ElementNames,
     children \in SeqsUpTo(InnerElements \cup {TextChild, ExpressionChild}, MaxChildren)}

AttributeElements ==
  {SelfClosingElement(<<"a">>, attributes) : attributes \in AttributeTexts}
  \cup {PairedElement(<<"a">>, attributes, <<TextChild>>, <<"a">>) :
          attributes \in AttributeTexts}

\* member and namespaced names, a spread child, an element as an attribute value,
\* and sources that end early or go wrong
OtherSources ==
  {PairedElement(<<"a", ".", "b">>, <<>>, <<TextChild>>, <<"a", ".", "b">>),
   PairedElement(<<"a", ".", "b">>, <<>>, <<>>, <<"a", ".", "c">>),
   PairedElement(<<"a", ":", "b">>, <<>>, <<>>, <<"a", ":", "b">>),
   PairedElement(<<"a">>, <<>>, <<Piece(<<"{", ".", ".", ".", "x", "}">>, FALSE, 0, FALSE)>>,
                 <<"a">>),
   PairedElement(<<"a">>, <<>>, <<Piece(<<"{", "}">>, FALSE, 0, FALSE)>>, <<"a">>),
   PairedElement(<<"a">>, <<>>, <<Piece(<<"{", "<", "b", "/", ">", "}">>, FALSE, 1, FALSE)>>,
                 <<"a">>),
   SelfClosingElement(<<"a">>, <<" ", "c", "=", "<", "b", "/", ">">>),
   SelfClosingElement(<<"a">>, <<" ", "c", "=">>),
   SelfClosingElement(<<"a">>, <<" ", "c", "=", "\"", "v">>),
   Piece(<<"<", "a", ">">>, FALSE, 1, FALSE),
   Piece(<<"<", "a", ">", "t">>, FALSE, 1, FALSE),
   Piece(<<"<", "a", ">", "<">>, FALSE, 1, FALSE),
   Piece(<<"<", "a">>, FALSE, 1, FALSE),
   Piece(<<"x">>, FALSE, 0, FALSE),
   Piece(<<"}">>, FALSE, 0, FALSE)}

JSXPrograms ==
  {[kind |-> "jsx", source |-> e.source, mismatch |-> e.mismatch,
    elements |-> e.elements, fragments |-> e.fragments, plugins |-> {"jsx"}] :
     e \in NestedElements \cup AttributeElements \cup OtherSources}
  \cup {[kind |-> "jsx", source |-> <<"<", "a", "/", ">">>, mismatch |-> FALSE,
         elements |-> 1, fragments |-> FALSE, plugins |-> {}]}

InitParse == \E p \in JSXPrograms : InitSource(p)

NextParse ==
  \/ ParseJSX
  \/ Construct({"jsx"})
  \/ ProcessJSX

SpecParse == InitParse /\ [][NextParse]_vars

----------------------------------------------------------------------------
(* Claims about the orchestrator *)

Source == SourceOf(tokens)

ConfigErrorMessage ==
  "The TypeScript transform without the import transform is not yet supported."

\* the transformers in the order the constructor registers them
RegistrationOrder ==
  <<"NumericSeparatorTransformer", "OptionalCatchBindingTransformer", "JSXTransformer",
    "ReactDisplayNameTransformer", "ImportTransformer", "FlowTransformer",
    "TypeScriptTransformer">>

Registered(t) ==
  CASE t = "JSXTransformer" -> "jsx" \in transforms
    [] t = "ReactDisplayNameTransformer" -> "jsx" \in transforms
    [] t = "ImportTransformer" -> "imports" \in transforms
    [] t = "FlowTransformer" -> "flow" \in transforms
    [] t = "TypeScriptTransformer" -> "typescript" \in transforms
    [] OTHER -> TRUE

\* the prefix and suffix text a registered transformer reports at the end of the run
ReportedPrefix(t) ==
  IF ~Registered(t) THEN <<>>
  ELSE IF t = "JSXTransformer"
  THEN IF filenameVarName = "" THEN <<>>
       ELSE <<"const ", filenameVarName, " = ", "\"\"", ";">>
  ELSE IF opaque THEN OpaquePrefixCode(t) ELSE <<>>

ReportedSuffix(t) ==
  IF Registered(t) /\ opaque /\ t # "JSXTransformer" THEN OpaqueSuffixCode(t) ELSE <<>>

\* "use strict", the transformers' prefixes in registration order, the temporaries
ExpectedPrefix ==
  (IF "imports" \in transforms THEN <<"\"use strict\";">> ELSE <<>>)
    \o Flatten([k \in 1..Len(RegistrationOrder) |-> ReportedPrefix(RegistrationOrder[k])])
    \o Flatten([k \in 1..Len(generatedVariables) |-> <<" var ", generatedVariables[k], ";">>])

ExpectedSuffix ==
  Flatten([k \in 1..Len(RegistrationOrder) |-> ReportedSuffix(RegistrationOrder[k])])

\* the number of atoms of the first line of a text, its line end included
FirstLineLength(text) ==
  IF "\n" \in Range(text)
  THEN CHOOSE n \in 1..Len(text) : text[n] = "\n" /\ \A m \in 1..(n - 1) : text[m] # "\n"
  ELSE Len(text)

\* a text's first line, ended by a line end whether or not it had one
FirstLine(text) ==
  IF "\n" \in Range(text) THEN SubSeq(text, 1, FirstLineLength(text)) ELSE text \o <<"\n">>

AfterFirstLine(text) == SubSeq(text, FirstLineLength(text) + 1, Len(text))

SourceHasShebang == Len(Source) >= 2 /\ Source[1] = "#" /\ Source[2] = "!"

C3_PrefixAfterShebangLine ==
  (pc = "done" /\ SourceHasShebang) =>
    /\ FirstLine(resultCode) = FirstLine(Source)
    /\ output = FirstLine(Source) \o ExpectedPrefix \o AfterFirstLine(resultCode)
                  \o ExpectedSuffix

C3_Witness ==
  /\ pc = "done"
  /\ program.kind = "plain" /\ program.lead = Shebang /\ program.body = "none"
  /\ "imports" \in transforms
  /\ output = Shebang \o <<"\n", "\"use strict\";">> \o SubSeq(ExpectedPrefix, 2, Len(ExpectedPrefix)) \o ExpectedSuffix

\* C4 as stated: the output is the prologue and prefixes, the temporaries, the
\* rewritten token stream and the suffixes, in that order, for every source.
C4_FixedAssemblyOrder ==
  pc = "done" => output = ExpectedPrefix \o resultCode \o ExpectedSuffix

\* C4 as amended: that order holds for a source that does not begin with a shebang
\* line.
C4_FixedAssemblyOrderWithoutShebang ==
  (pc = "done" /\ ~SourceHasShebang) =>
    output = ExpectedPrefix \o resultCode \o ExpectedSuffix

C4_Witness ==
  /\ pc = "done" /\ ~SourceHasShebang
  /\ opaque
  /\ transforms = {"imports", "flow", "jsx"}
  /\ generatedVariables = <<"_class", "_class2">>
  /\ output = ExpectedPrefix \o resultCode \o ExpectedSuffix

----------------------------------------------------------------------------
(* Claims about the class rewrite, over the programs that are one class *)

TheClass == program.classes[1]

InstanceFields == FieldsOfKind(TheClass, "instance")

StaticFields == FieldsOfKind(TheClass, "static")

\* the atoms that open a constructor the rewrite wrote
ConstructorOpenings == {"constructor(...", "constructor() { "}

\* the first and the last place of an atom in the output
FirstIndexOf(atom) ==
  CHOOSE n \in 1..Len(output) : output[n] = atom /\ \A m \in 1..(n - 1) : output[m] # atom

LastIndexOf(atom) ==
  CHOOSE n \in 1..Len(output) :
    output[n] = atom /\ \A m \in (n + 1)..Len(output) : output[m] # atom

\* the output after the opening brace of the class body, which is its first brace
AfterOpeningBrace == SubSeq(output, FirstIndexOf("{") + 1, Len(output))

\* the output before the class keyword and its whitespace
BeforeClass == SubSeq(output, 1, FirstIndexOf("class") - 2)

\* the output after the closing brace of the class body, which is its last brace
AfterClosingBrace == SubSeq(output, LastIndexOf("}") + 1, Len(output))

StartsWith(text, start) ==
  Len(text) >= Len(start) /\ SubSeq(text, 1, Len(start)) = start

ExpectedInitializers ==
  Join([k \in 1..Len(InstanceFields) |-> <<InitializerStatement(InstanceFields[k])>>],
       <<";">>)

ExpectedConstructor ==
  IF TheClass.hasSuperclass
  THEN <<"constructor(...", "args", ") { super(...", "args", "); ">>
         \o ExpectedInitializers \o <<"; }">>
  ELSE <<"constructor() { ">> \o ExpectedInitializers \o <<"; }">>

\* C5: a class with initializer statements and no constructor of its own gets exactly
\* one constructor, right after the opening brace of its body: with a superclass it
\* takes a spread parameter and passes it to super(...) before the initializers, which
\* run in their listed order; without one it has no parameter and no super call.  A
\* class without initializer statements gets no constructor written for it.
C5_SynthesizedConstructor ==
  (pc = "done" /\ program.kind = "class" /\ ~TheClass.hasConstructor) =>
    IF Len(InstanceFields) > 0
    THEN /\ StartsWith(AfterOpeningBrace, ExpectedConstructor)
         /\ Cardinality({n \in 1..Len(output) : output[n] \in ConstructorOpenings}) = 1
    ELSE \A n \in 1..Len(output) : output[n] \notin ConstructorOpenings

C5_Witness ==
  /\ pc = "done" /\ program.kind = "class"
  /\ ~TheClass.hasConstructor /\ TheClass.hasSuperclass
  /\ TheClass.fields = <<"instance", "instance">>
  /\ StartsWith(AfterOpeningBrace,
                <<"constructor(...", "args", ") { super(...", "args", "); ",
                  "this.f1 = 1", ";", "this.f2 = 1", "; }">>)

\* the name the static initializers are run on
StaticsName == IF TheClass.isExpression THEN "_class" ELSE "A"

ExpectedStatics(sep) ==
  Join([k \in 1..Len(StaticFields) |->
          <<StaticsName, StaticInitializerSuffix(StaticFields[k])>>], <<sep>>)

\* what follows the class in the source
AfterClassInSource == (IF TheClass.isExpression THEN <<";">> ELSE <<>>) \o <<"\n">>

\* C6: a class expression with static initializers becomes one parenthesized comma
\* expression that assigns the class to a name, runs the initializers on that name in
\* list order after the closing brace of the body and ends in the name; a class
\* statement gets the initializer statements after its closing brace, in list order,
\* unwrapped; a class without static initializers gets nothing before or after it.
C6_StaticInitializers ==
  (pc = "done" /\ program.kind = "class" /\ Len(program.classes) = 1) =>
    IF Len(StaticFields) = 0
    THEN /\ BeforeClass = ExpectedPrefix \o SourceOf(ClassPrefix(TheClass))
         /\ AfterClosingBrace = AfterClassInSource
         /\ generatedVariables = <<>>
    ELSE IF TheClass.isExpression
    THEN /\ generatedVariables = <<"_class">>
         /\ BeforeClass = ExpectedPrefix \o SourceOf(ClassPrefix(TheClass))
                            \o <<" (", "_class", " =">>
         /\ AfterClosingBrace = <<", ">> \o ExpectedStatics(", ") \o <<", ", "_class", ")">>
                                  \o AfterClassInSource
    ELSE /\ generatedVariables = <<>>
         /\ BeforeClass = ExpectedPrefix
         /\ AfterClosingBrace = <<" ">> \o ExpectedStatics("; ") \o <<";">>
                                  \o AfterClassInSource

C6_Witness ==
  /\ pc = "done" /\ program.kind = "class" /\ Len(program.classes) = 1
  /\ TheClass.isExpression /\ TheClass.fields = <<"static", "static">>
  /\ AfterClosingBrace = <<", ", "_class", ".f1 = 1", ", ", "_class", ".f2 = 1", ", ",
                           "_class", ")", ";", "\n">>

----------------------------------------------------------------------------
(* Claims about the JSX rewrite of a tag *)

DevPropsText ==
  <<"__self: this, __source: {fileName: ", "_jsxFileName", ", lineNumber: ", "1", "}">>

\* the entry of the props object for the i-th attribute
ExpectedEntry(kind, i) ==
  CASE kind = "string" -> <<" ", AttrName(i), ": ", "\"", AttrValue(i), "\"", ",">>
    [] kind = "dashed" ->
         <<" ", "'", "data", "-", AttrName(i), "'", ": ", "\"", AttrValue(i), "\"", ",">>
    [] kind = "expr" -> <<" ", AttrName(i), ": ", AttrValue(i), ",">>
    [] kind = "bare" -> <<" ", AttrName(i), ": true", ",">>
    [] kind = "bareDashed" -> <<" ", "data", "-", AttrName(i), ": true", ",">>
    [] kind = "spread" -> <<" ", "...", AttrValue(i), ",">>

ExpectedPropsObject ==
  <<", {">>
    \o Flatten([i \in 1..Len(program.attrs) |-> ExpectedEntry(program.attrs[i], i)])
    \o (IF program.attrs = <<>> THEN <<>> ELSE <<" ">>)
    \o DevPropsText \o <<"}">>

\* the output from the opening of the props object on
FromPropsObject == SubSeq(output, FirstIndexOf(", {"), Len(output))

AfterFactory == SubSeq(output, FirstIndexOf(".createElement(") + 1, Len(output))

FirstIsLowerCaseLetter(name) == name[1] \in Range(LowerCaseLetters)

\* C8: the element name is written as a quoted string exactly when it is a single
\* identifier whose first character is a lowercase letter; every other name (a
\* capital first, `_` or `$` first, a member name, a namespaced name) is copied.
C8_QuotedIffLowerCaseIdentifier ==
  (pc = "done" /\ program.kind = "tag") =>
    IF Len(program.name.parts) = 1 /\ FirstIsLowerCaseLetter(program.name.parts[1])
    THEN StartsWith(AfterFactory, <<"'">> \o program.name.parts[1] \o <<"'", ", {">>)
    ELSE StartsWith(AfterFactory, SourceOf(NameTokens(program.name)) \o <<", {">>)

----------------------------------------------------------------------------
(* Claims about a text child *)

\* every argument after the props object is led by the atom ", "
ArgumentCount == Cardinality({n \in 1..Len(output) : output[n] = ", "})

\* the output after that atom
AfterSeparator == SubSeq(output, FirstIndexOf(", ") + 1, Len(output))

WhitespaceOnly(text) == \A i \in 1..Len(text) : text[i] \in WhitespaceCharacters

\* C9 as stated: a text child of whitespace only, with or without a newline, adds no
\* argument to the call.
C9_WhitespaceOnlyTextAddsNoArgument ==
  (pc = "done" /\ program.kind = "text" /\ WhitespaceOnly(program.text)) =>
    ArgumentCount = 0

\* C9 as amended: a text child of whitespace only adds no argument when it holds a
\* newline, and adds its whitespace as one quoted string when it holds none; a text
\* child adds one quoted-string argument exactly when its normalized text is not
\* empty, and that argument is the normalized text.
C9_TextArgumentIffNormalizedNonEmpty ==
  (pc = "done" /\ program.kind = "text") =>
    /\ (WhitespaceOnly(program.text) /\ "\n" \in Range(program.text)) => ArgumentCount = 0
    /\ (WhitespaceOnly(program.text) /\ "\n" \notin Range(program.text)) =>
         /\ ArgumentCount = 1
         /\ StartsWith(AfterSeparator, JSONStringify(program.text))
    /\ ArgumentCount = (IF NormalizedText(program.text) = <<>> THEN 0 ELSE 1)
    /\ ArgumentCount = 1 =>
         StartsWith(AfterSeparator, JSONStringify(NormalizedText(program.text)))

C9_Witness ==
  /\ pc = "done" /\ program.kind = "text"
  /\ program.text = <<" ", "\t">>
  /\ ArgumentCount = 1
  /\ StartsWith(AfterSeparator, <<"\"", " ", "\\", "t", "\"", " ", ")">>)

\* the text argument of a text program whose text holds no space and no line break
ChildArgument == SubSeq(output, FirstIndexOf(", ") + 1, LastIndexOf(")") - 1)

\* what follows the `&`
AfterAmpersand == program.body.chars \o program.post

\* the characters read after the `&` in the search for `;`: up to the first `;` among
\* the first ten, or the first ten
ScanLength ==
  LET reach == IF Len(AfterAmpersand) < 10 THEN Len(AfterAmpersand) ELSE 10
  IN IF \E n \in 1..reach : AfterAmpersand[n] = ";"
     THEN CHOOSE n \in 1..reach :
            AfterAmpersand[n] = ";" /\ \A m \in 1..(n - 1) : AfterAmpersand[m] # ";"
     ELSE reach

Unresolved == program.body.value = ""

\* C10 as stated: for a reference that cannot be resolved the normalized text holds
\* one `&`, and the characters read after it in the search for `;` are left out.
C10_UnresolvedDropsScannedCharacters ==
  (pc = "done" /\ program.kind = "entity" /\ Unresolved) =>
    ChildArgument =
      JSONStringify(program.pre \o <<"&">>
                      \o SubSeq(AfterAmpersand, ScanLength + 1, Len(AfterAmpersand)))

\* C10 as amended: for a reference that cannot be resolved the normalized text holds
\* the `&` and, after it, every character that follows it in the source: the text is
\* unchanged.  (A reference that resolves is replaced by its character.)
C10_UnresolvedKeepsText ==
  (pc = "done" /\ program.kind = "entity") =>
    IF Unresolved
    THEN ChildArgument = JSONStringify(program.pre \o <<"&">> \o AfterAmpersand)
    ELSE ChildArgument =
           JSONStringify(program.pre \o <<program.body.value>> \o program.post)

C10_Witness ==
  /\ pc = "done" /\ program.kind = "entity"
  /\ program.pre = <<"x">> /\ program.body.chars = <<"z", "z", "z", ";">>
  /\ program.post = <<"y">>
  /\ ChildArgument = <<"\"", "x", "&", "z", "z", "z", ";", "y", "\"">>

----------------------------------------------------------------------------
(* Claims about processBalancedCode *)

\* the tokens of a set of types among those the call has passed: from, ..., to - 1
Passed(types, from, to) == Cardinality({j \in from..(to - 1) : Tok(j).type \in types})

\* token j closes a brace or a parenthesis that no token from `from` on has opened
UnmatchedCloserAt(from, j) ==
  \/ /\ Tok(j).type = "braceR"
     /\ Passed({"braceL", "dollarBraceL"}, from, j) = Passed({"braceR"}, from, j)
  \/ /\ Tok(j).type = "parenR"
     /\ Passed({"parenL"}, from, j) = Passed({"parenR"}, from, j)

\* C12: a call of processBalancedCode returns with the cursor at the end of the input
\* or on the first closing brace or parenthesis that nothing consumed in the call has
\* opened, where `{`, `${` and `(` each open one level; it consumes no such closer.
C12_BalancedCodeStopsAtUnmatchedCloser ==
  (pc = "returned" /\ program.kind = "brackets") =>
    /\ tokenIndex >= program.start /\ tokenIndex <= Len(tokens)
    /\ tokenIndex = Len(tokens) \/ UnmatchedCloserAt(program.start, tokenIndex)
    /\ \A j \in program.start..(tokenIndex - 1) : ~UnmatchedCloserAt(program.start, j)

C12_Witness ==
  /\ pc = "returned" /\ program.kind = "brackets"
  /\ program.types = <<"dollarBraceL", "braceR", "braceR">>
  /\ program.start = 0
  /\ tokenIndex = 2

----------------------------------------------------------------------------
(* Claims about the name the static initializers are written with *)

StaticSuffixes == {StaticInitializerSuffix(i) : i \in 1..(MaxFields + 1)}

\* the names the static-initializer statements of the output start with
StaticStatementNames ==
  {output[n - 1] : n \in {m \in 2..Len(output) : output[m] \in StaticSuffixes}}

HasStatics(c) == \E i \in 1..Len(c.fields) : c.fields[i] = "static"

\* the classes of the program that satisfy a condition, counted
ClassCount(Cond(_)) ==
  Cardinality({k \in 1..Len(program.classes) : Cond(program.classes[k])})

AnonymousExpressionWithStatics(c) == c.isExpression /\ ~c.named /\ HasStatics(c)

ExpressionWithStatics(c) == c.isExpression /\ HasStatics(c)

\* C13 as stated: a temporary is minted, recorded and used for the static initializers
\* exactly when an anonymous class expression has static initializers; a named class
\* and a class without static initializers mint none and use the declared name.
C13_TemporaryOnlyWhenAnonymous ==
  (pc = "done" /\ program.kind = "class") =>
    /\ Len(generatedVariables) = ClassCount(AnonymousExpressionWithStatics)
    /\ (Len(program.classes) = 1 /\ HasStatics(TheClass)) =>
          StaticStatementNames =
            {IF AnonymousExpressionWithStatics(TheClass) THEN "_class" ELSE "A"}

\* C13, amended: a temporary is minted, recorded and used for the static initializers
\* exactly when a class expression, named or anonymous, has static initializers; a
\* class statement and a class without static initializers mint none, and a class
\* statement's static initializers are written with its declared name.
C13_TemporaryWhenExpressionHasStatics ==
  (pc = "done" /\ program.kind = "class") =>
    /\ Len(generatedVariables) = ClassCount(ExpressionWithStatics)
    /\ \A n \in 1..Len(generatedVariables) :
          /\ generatedVariables[n] \notin Range(Source)
          /\ \A m \in 1..(n - 1) : generatedVariables[m] # generatedVariables[n]
    /\ (Len(program.classes) = 1 /\ HasStatics(TheClass)) =>
          StaticStatementNames =
            IF TheClass.isExpression THEN Range(generatedVariables) ELSE {"A"}

C13_Witness ==
  /\ pc = "done" /\ program.kind = "class" /\ Len(program.classes) = 1
  /\ TheClass.isExpression /\ TheClass.named /\ TheClass.fields = <<"static">>
  /\ generatedVariables = <<"_class">>
  /\ StaticStatementNames = {"_class"}

----------------------------------------------------------------------------
(* Claims about the keys of attributes whose name holds a dash *)

\* the places of the output where the name of a dashed attribute starts
DashedKeyPlaces ==
  {n \in 1..(Len(output) - 2) :
     /\ output[n] = "data" /\ output[n + 1] = "-"
     /\ \E i \in 1..Len(program.attrs) : output[n + 2] = AttrName(i)}

DashedAttributes ==
  {i \in 1..Len(program.attrs) : program.attrs[i] \in {"dashed", "bareDashed"}}

\* C14: every attribute whose name holds a dash, with a value or without one, is
\* written into the props object once, as a key between quotes; never bare.
C14_DashedNameIsQuotedKey ==
  (pc = "done" /\ program.kind = "tag") =>
    /\ Cardinality(DashedKeyPlaces) = Cardinality(DashedAttributes)
    /\ \A n \in DashedKeyPlaces :
          /\ n > 1 /\ output[n - 1] = "'"
          /\ n + 3 <= Len(output) /\ output[n + 3] = "'"

----------------------------------------------------------------------------
(* Claims about the filler written after a text child *)

\* what the rewrite wrote after the text literal (after the props object when the
\* text added no argument), up to the closing parenthesis of the call
Filler ==
  SubSeq(output,
         (IF ArgumentCount > 0 THEN LastIndexOf("\"") ELSE LastIndexOf("}")) + 1,
         LastIndexOf(")") - 1)

NewlineCount(text) == Cardinality({i \in 1..Len(text) : text[i] = "\n"})

\* the number of spaces at the very end of the text
TrailingSpaces(text) ==
  CHOOSE k \in 0..Len(text) :
    /\ \A i \in (Len(text) - k + 1)..Len(text) : text[i] = " "
    /\ k < Len(text) => text[Len(text) - k] # " "

\* C15: the filler written for a text run is as many newlines as the run holds,
\* followed by as many spaces as the run ends with, and nothing else.
C15_FillerIsNewlinesThenTrailingSpaces ==
  (pc = "done" /\ program.kind = "text") =>
    Filler = Repeat("\n", NewlineCount(program.text))
               \o Repeat(" ", TrailingSpaces(program.text))

----------------------------------------------------------------------------
(* Claims about the binding parser *)

\* the tokens of the input that are bound identifiers: a name that is neither the
\* default value after `=` nor the type after `:` (a token at a 1-based place)
IsBindingIdentifier(i) ==
  /\ program.types[i] \in {"name", "_yield"}
  /\ i > 1 => program.types[i - 1] \notin {"eq", "colon"}

AtomStarts == {"_this", "_yield", "name", "bracketL", "braceL"}

\* C16: every identifier consumed as a binding, at any depth of array patterns,
\* binding lists and rest elements, carries BlockScopedDeclaration when isBlockScope
\* is true and FunctionScopedDeclaration when it is false; no other token carries a
\* role; where a binding atom is expected (at the start of a binding, after `...`)
\* and the current token cannot begin one, the parse stops there with a syntax error
\* and that token gets no role.
C16_BindingIdentifiersCarryTheScopeRole ==
  (pc \in {"parsed", "syntaxError"} /\ program.kind = "binding") =>
    /\ Len(tokens) <= Len(program.types)
    /\ \A i \in 1..Len(tokens) :
         tokens[i].identifierRole =
           IF IsBindingIdentifier(i) THEN DeclarationRole(program.isBlockScope) ELSE ""
    /\ (program.entry = "atom" /\ InputType(0) \notin AtomStarts) =>
         pc = "syntaxError" /\ tokens = <<>>
    /\ \A i \in 1..Len(tokens) :
         (program.types[i] = "ellipsis" /\ InputType(i) \notin AtomStarts) =>
           pc = "syntaxError" /\ Len(tokens) = i

C16_Witness ==
  /\ pc = "parsed" /\ program.kind = "binding"
  /\ program.types = <<"bracketL", "name", "comma", "bracketL", "name", "comma",
                       "ellipsis", "name", "bracketR", "bracketR">>
  /\ ~program.isBlockScope
  /\ Len(tokens) = 10
  /\ {i \in 1..10 : tokens[i].identifierRole = "FunctionScopedDeclaration"} = {2, 5, 8}

----------------------------------------------------------------------------
(* Claims about the JSX parser and the rewrite of the elements it accepts *)

\* C11: a source in which a closing tag names another element than its opening tag
\* (<a></b>, or a named element closed by </>) is not parsed: the parse ends in a
\* syntax error.
C11_MismatchedClosingTagIsSyntaxError ==
  (pc # "source" /\ program.kind = "jsx" /\ program.mismatch) =>
    pc = "syntaxError" /\ failure # ""

\* the number of places of the rewritten code that hold an atom
CountOf(atom) == Cardinality({n \in 1..Len(resultCode) : resultCode[n] = atom})

\* the calls opened and not yet closed after the first n atoms of the rewritten code
OpenCalls(n) ==
  Cardinality({m \in 1..n : resultCode[m] = ".createElement("})
    - Cardinality({m \in 1..n : resultCode[m] = ")"})

\* C17: for every element the parser accepts (self-closing, with children, nested,
\* a fragment), processJSXTag returns with the cursor on the token right after the
\* final tag end of the element, and has written one opening of a factory call and
\* one closing parenthesis per element, properly nested.
C17_TagConsumesItsElement ==
  (pc \in {"returned", "failed"} /\ program.kind = "jsx" /\ program.elements > 0) =>
    /\ pc = "returned"
    /\ tokenIndex = Len(tokens) - 2
    /\ CountOf(".createElement(") = program.elements
    /\ CountOf(")") = program.elements
    /\ \A n \in 2..(Len(resultCode) - 1) : OpenCalls(n) > 0
    /\ OpenCalls(Len(resultCode)) = 0

====
